---------------------------- MODULE Spec2Model ----------------------------
(***************************************************************************)
(* Memory subsystem of lcr: the graph store (in-memory and FalkorDB        *)
(* back-ends), the Observer pipeline, the graph leg of the Context         *)
(* Assembler and the orchestration of background observer tasks.           *)
(*                                                                         *)
(* Conventions.  A string that is later split on whitespace (an entity     *)
(* name, a "subject predicate object" statement) is the sequence of its    *)
(* words, so formatting is concatenation and split() is the word list.     *)
(* Python's None is None (strings), NoTime (datetimes) or NoStmt           *)
(* (statements).  An id is <<kind, n>>: a uuid string, a string of         *)
(* decimal digits, an int, or some other text.  Confidence is in tenths.   *)
(***************************************************************************)
EXTENDS Integers, Sequences, FiniteSets, TLC

\* ------------------------------------------------------------------ bounds
MaxTasks == 2       \* observer turns of one chat session (data-rich runs)
MaxObservers == 3   \* observer turns of one session of small talk
MaxTime == 1        \* clock ticks
MaxStore == 3       \* relationships held by a store driven through its API
MaxGenCalls == 2    \* generator calls followed one after the other

\* --------------------------------------------------------------- constants
ObserverPermits == 2
MaxRetries == 3
ExistingLimit == 10
ConfUser == 10
ConfAssistant == 3
RetryDelay == 2
EmbedDim == 4096

None == "None"
NoTime == -1
NoStmt == << >>
NotApplied == [op |-> "none", input |-> << >>, output |-> << >>]
FalkorNull == "null"
FalkorNullStmt == <<"null">>
FalkorNullTime == <<"null">>

\* ------------------------------------------------------------------- ids
Uuid(n) == <<"uuid", n>>
IntId(n) == <<"int", n>>
\* str(x): an int becomes its decimal digits, a string stays itself
Str(id) == IF id[1] = "int" THEN <<"digits", id[2]>> ELSE id
\* s.isdigit()
IsDigit(id) == id[1] = "digits"
\* int(s) of a digit string
ToInt(id) == <<"int", id[2]>>

\* -------------------------------------------------------- the vocabulary
User == <<"User">>
Mom == <<"Mom">>
Triple(s, p, o) == [subject |-> s, predicate |-> p, object |-> o]
Acme == Triple(User, "WORKS_AT", <<"Acme">>)
NewCorp == Triple(User, "WORKS_AT", <<"NewCorp">>)
Visiting == Triple(Mom, "VISITING", <<"Philadelphia">>)
ReturnedHome == Triple(Mom, "RETURNED_HOME", <<"Massachusetts">>)

\* the facts a conversation about a topic can mention
Facts(tp) ==
    CASE tp = "employment" -> {Acme, NewCorp}
      [] tp = "visit" -> {Visiting, ReturnedHome}
      [] OTHER -> {}

\* f"{subject} {predicate} {object}"
Statement(r) == r.subject \o <<r.predicate>> \o r.object

\* a relationship dict as the extraction prompt returns it; id << >> is a
\* dict without the key "id"
RelDict(f) ==
    [id |-> << >>,
     subject |-> f.subject, predicate |-> f.predicate, object |-> f.object,
     meta_superseded |-> FALSE, status |-> None, valid_until |-> NoTime,
     superseded_by |-> NoStmt, source |-> None, confidence |-> -1]

\* rel.get("source", "user_stated"), rel.get("confidence", 1.0)
GetSource(rel) == IF rel.source = None THEN "user_stated" ELSE rel.source
GetConfidence(rel) == IF rel.confidence = -1 THEN ConfUser ELSE rel.confidence

\* ------------------------------------------------ in-memory graph store
\* One record of InMemoryGraphStore.relationships.  still_valid and
\* superseded_at are the metadata keys mark_contradiction writes.
MemRecord(store, rel, t, who) ==
    [id |-> IF rel.id = << >> THEN Uuid(Len(store) + 1) ELSE rel.id,
     subject |-> rel.subject, predicate |-> rel.predicate, object |-> rel.object,
     meta_superseded |-> rel.meta_superseded,
     created_at |-> t,
     status |-> rel.status,
     valid_until |-> rel.valid_until,
     superseded_by |-> rel.superseded_by,
     source |-> GetSource(rel),
     confidence |-> GetConfidence(rel),
     still_valid |-> "unset", superseded_at |-> NoTime,
     by |-> who]

MemPersistOne(store, rel, t, who) == Append(store, MemRecord(store, rel, t, who))

\* the first record whose str(id) equals str(existing_id), or 0
MemFind(store, existing_id) ==
    LET hits == {i \in DOMAIN store : Str(store[i].id) = Str(existing_id)}
    IN IF hits = {} THEN 0 ELSE CHOOSE i \in hits : \A j \in hits : i <= j

MemMarkedStatus == "completed"

\* a mark that chains the superseding statements instead of replacing them
MemMarkContradictionChained(store, existing_id, stmt, t) ==
    LET i == MemFind(store, existing_id)
    IN IF i = 0 THEN store
       ELSE [store EXCEPT ![i] = [@ EXCEPT !.still_valid = "false",
                                           !.superseded_at = t,
                                           !.superseded_by = @ \o stmt,
                                           !.status = MemMarkedStatus]]

MemMarkContradiction(store, existing_id, stmt, t) ==
    LET i == MemFind(store, existing_id)
    IN IF i = 0 THEN store
       ELSE [store EXCEPT ![i] = [@ EXCEPT !.still_valid = "false",
                                           !.superseded_at = t,
                                           !.superseded_by = stmt,
                                           !.status = MemMarkedStatus]]

\* ---------------------------------------------------- FalkorDB graph store
\* An edge is found by MERGE on (subject node, predicate, object node) and
\* every property is SET again; otherwise a new edge gets the next edge id.
FalkorEdge(store, rel) ==
    LET hits == {i \in DOMAIN store : /\ store[i].subject = rel.subject
                                      /\ store[i].predicate = rel.predicate
                                      /\ store[i].object = rel.object}
    IN IF hits = {} THEN 0 ELSE CHOOSE i \in hits : TRUE

\* datetime.isoformat() and, on the way back, datetime.fromisoformat()
Isoformat(t) == <<"iso", t>>
FromIsoformat(v) == v[2]

FalkorRow(id, old_superseded_at, rel, t, who) ==
    [id |-> id,
     subject |-> rel.subject, predicate |-> rel.predicate, object |-> rel.object,
     meta_superseded |-> rel.meta_superseded,
     created_at |-> t,
     status |-> IF rel.status = None THEN FalkorNull ELSE rel.status,
     valid_until |-> IF rel.valid_until = NoTime THEN FalkorNullTime
                     ELSE Isoformat(rel.valid_until),
     superseded_by |-> IF rel.superseded_by = NoStmt THEN FalkorNullStmt
                       ELSE rel.superseded_by,
     source |-> GetSource(rel),
     confidence |-> GetConfidence(rel),
     still_valid |-> "true", superseded_at |-> old_superseded_at,
     by |-> who]

FalkorPersistOne(store, rel, t, who) ==
    LET i == FalkorEdge(store, rel)
    IN IF i = 0
       THEN Append(store, FalkorRow(IntId(Len(store) + 1), NoTime, rel, t, who))
       ELSE [store EXCEPT ![i] = FalkorRow(@.id, @.superseded_at, rel, t, who)]

\* the id parameter of the MATCH: a digit string becomes an int
FalkorRelId(existing_id) ==
    IF existing_id[1] # "int" /\ IsDigit(existing_id) THEN ToInt(existing_id)
    ELSE existing_id

FalkorMarkContradiction(store, existing_id, stmt, t) ==
    [i \in DOMAIN store |->
        IF store[i].id = FalkorRelId(existing_id)
        THEN [store[i] EXCEPT !.still_valid = "false",
                              !.superseded_by = stmt,
                              !.superseded_at = t]
        ELSE store[i]]

\* FalkorGraphStore._row_to_relationship
RowToRelationship(row) ==
    [row EXCEPT !.id = Str(@),
                !.status = IF @ = FalkorNull THEN None ELSE @,
                !.valid_until = IF @ = FalkorNullTime THEN NoTime
                                ELSE FromIsoformat(@),
                !.superseded_by = IF @ = NoStmt \/ @ = FalkorNullStmt
                                  THEN NoStmt ELSE @]

\* ----------------------------------------------------- either back-end
PersistOne(be, store, rel, t, who) ==
    IF be = "memory" THEN MemPersistOne(store, rel, t, who)
    ELSE FalkorPersistOne(store, rel, t, who)

MarkContradiction(be, store, existing_id, stmt, t) ==
    IF be = "memory" THEN MemMarkContradiction(store, existing_id, stmt, t)
    ELSE FalkorMarkContradiction(store, existing_id, stmt, t)

\* the GraphRelationship objects a back-end hands to its callers
Rel(be, row) == IF be = "memory" THEN row ELSE RowToRelationship(row)

\* query(subject, predicate=None)
Query(be, store, subject) ==
    SelectSeq([i \in DOMAIN store |-> Rel(be, store[i])],
              LAMBDA r : r.subject = subject)

\* query_by_object(obj, predicate=None)
QueryByObject(be, store, obj) ==
    SelectSeq([i \in DOMAIN store |-> Rel(be, store[i])],
              LAMBDA r : r.object = obj)

\* related facts order: subject's relationships, then the object's, one per id
DedupById(rs) ==
    SelectSeq([i \in DOMAIN rs |-> [pos |-> i, r |-> rs[i]]],
              LAMBDA x : \A j \in DOMAIN rs : rs[j].id = x.r.id => j >= x.pos)

\* Observer._get_related_facts
GetRelatedFacts(be, store, subject, obj) ==
    IF obj # << >>
    THEN LET all == Query(be, store, subject) \o Query(be, store, obj)
             d == DedupById(all)
         IN [i \in DOMAIN d |-> d[i].r]
    ELSE Query(be, store, subject)

\* ---------------------------------------------------------------- entities
\* a node of the store: an entry of InMemoryGraphStore.entities, or a
\* FalkorDB node with its label
EntityDict(name, type) == [name |-> name, type |-> type, attributes |-> {}]

MergeAttributes(old, new) ==
    {p \in old : \A q \in new : q[1] # p[1]} \cup new

MemPersistEntity(ns, e, t, who) ==
    LET olds == {n \in ns : n.name = e.name}
        entry == IF olds = {}
                 THEN [label |-> "Entity", name |-> e.name, type |-> e.type,
                       attributes |-> e.attributes,
                       first_mentioned |-> t, last_mentioned |-> t, by |-> who]
                 ELSE LET o == CHOOSE n \in olds : TRUE
                      IN [o EXCEPT !.type = e.type,
                                   !.attributes = MergeAttributes(@, e.attributes),
                                   !.last_mentioned = t, !.by = who]
    IN (ns \ olds) \cup {entry}

FalkorMergeNode(ns, label, name, who) ==
    IF \E n \in ns : n.label = label /\ n.name = name THEN ns
    ELSE ns \cup {[label |-> label, name |-> name, type |-> None, attributes |-> {},
                   first_mentioned |-> NoTime, last_mentioned |-> NoTime, by |-> who]}

FalkorPersistEntity(ns, e, t, who) ==
    LET merged == FalkorMergeNode(ns, "Entity", e.name, who)
    IN {IF n.label = "Entity" /\ n.name = e.name
        THEN [n EXCEPT !.type = IF e.type = None THEN "Entity" ELSE e.type,
                       !.attributes = e.attributes,
                       !.last_mentioned = t, !.by = who]
        ELSE n : n \in merged}

PersistEntity(be, ns, e, t, who) ==
    IF be = "memory" THEN MemPersistEntity(ns, e, t, who)
    ELSE FalkorPersistEntity(ns, e, t, who)

\* the nodes persist_relationships leaves behind for one relationship
NodesAfterRel(be, ns, rel, who) ==
    IF be = "memory" THEN ns
    ELSE FalkorMergeNode(FalkorMergeNode(ns, "Person", rel.subject, who),
                         "Entity", rel.object, who)

\* ---------------------------------------------------- search_relationships
Matches(r, names) == r.subject \in names \/ r.object \in names

\* InMemoryGraphStore.search_relationships from index i on
RECURSIVE MemSearchFrom(_, _, _, _, _, _)
MemSearchFrom(store, names, limit, i, found, seen) ==
    IF i > Len(store) THEN found
    ELSE LET r == store[i]
             key == <<r.subject, r.predicate, r.object>>
             fresh == Matches(r, names) /\ key \notin seen
             found2 == IF fresh THEN Append(found, r) ELSE found
             seen2 == IF fresh THEN seen \cup {key} ELSE seen
         IN IF Len(found2) >= limit /\ (fresh \/ ~Matches(r, names))
            THEN found2
            ELSE MemSearchFrom(store, names, limit, i + 1, found2, seen2)

MemSearchRelationships(store, names, limit) ==
    MemSearchFrom(store, names, limit, 1, << >>, {})

Prefix(sq, n) == SubSeq(sq, 1, IF Len(sq) < n THEN Len(sq) ELSE n)

\* ORDER BY relation.created_at DESC: every order of the matching edges in
\* which no edge comes before a newer one
FalkorOrders(store, names) ==
    LET S == {i \in DOMAIN store : Matches(store[i], names)}
        n == Cardinality(S)
    IN {o \in [1..n -> S] :
            /\ \A i, j \in 1..n : i # j => o[i] # o[j]
            /\ \A i, j \in 1..n : i < j => store[o[i]].created_at >= store[o[j]].created_at}

\* FalkorGraphStore.search_relationships: the results the server may return
FalkorSearchResults(store, names, limit) ==
    {Prefix([k \in DOMAIN o |-> RowToRelationship(store[o[k]])], limit) :
        o \in FalkorOrders(store, names)}

SearchResults(be, store, names, limit) ==
    IF be = "memory" THEN {MemSearchRelationships(store, names, limit)}
    ELSE FalkorSearchResults(store, names, limit)

\* ------------------------------------------- Context Assembler, graph leg
GraphSearchTopK == 10
RecentDays == 7

CapitalisedWords == {"User", "Mom", "Acme", "NewCorp", "Philadelphia", "Massachusetts"}
FirstPersonWords == {"my", "i", "me", "i'm", "i've"}

\* ContextAssembler._extract_entities_from_query on the words of the query:
\* a first-person word counts when a space follows it
ExtractEntitiesFromQuery(q) ==
    {<<q[i]>> : i \in {j \in DOMAIN q : q[j] \in CapitalisedWords}}
    \cup (IF \/ \E i \in DOMAIN q : q[i] \in FirstPersonWords /\ i < Len(q)
             \/ \E i \in DOMAIN q : q[i] \in {"project", "projects"}
          THEN {User} ELSE {})

\* ContextAssembler._format_relationship
FormatRelationship(subject, predicate, obj, status) ==
    CASE predicate = "BROKE_UP_WITH" ->
            subject \o <<"broke", "up", "with">> \o obj \o <<"(no", "longer", "together)">>
      [] predicate = "DIVORCED_FROM" ->
            subject \o <<"divorced">> \o obj \o <<"(no", "longer", "married)">>
      [] predicate = "QUIT" ->
            subject \o <<"quit", "from">> \o obj
                    \o <<"(no", "longer", "employed", "there)">>
      [] predicate = "LEFT" -> subject \o <<"left">> \o obj
      [] predicate = "MOVED_FROM" ->
            subject \o <<"moved", "from">> \o obj \o <<"(no", "longer", "lives", "there)">>
      [] OTHER ->
            IF status = "completed"
            THEN subject \o <<predicate>> \o obj \o <<"(completed)">>
            ELSE subject \o <<predicate>> \o obj

GraphLegKeepsSuperseded(rel, t) ==
    ~(rel.valid_until # NoTime /\ t > rel.valid_until)

\* the filter of _graph_search: not superseded, not expired
GraphLegKeeps(rel, t) ==
    /\ rel.superseded_by = NoStmt
    /\ ~(rel.valid_until # NoTime /\ t > rel.valid_until)

\* relevance in units of 1/10000: 0.4 * confidence, recency and status boosts
Relevance(rel, t) ==
    4 * rel.confidence
      * (IF t - rel.created_at < RecentDays THEN 13 ELSE 10)
      * (IF rel.status = "ongoing" \/ rel.status = None THEN 12
         ELSE IF rel.status = "completed" THEN 8 ELSE 10)

Candidate(rel, t) ==
    [content |-> FormatRelationship(rel.subject, rel.predicate, rel.object, rel.status),
     source |-> "graph",
     relevance_score |-> Relevance(rel, t),
     created_at |-> rel.created_at,
     rel |-> rel]

\* the loop of _graph_search over the relationships the store returned
RECURSIVE GraphSearchFrom(_, _, _, _, _)
GraphSearchFrom(rs, i, results, top_k, t) ==
    IF i > Len(rs) THEN results
    ELSE IF ~GraphLegKeeps(rs[i], t)
         THEN GraphSearchFrom(rs, i + 1, results, top_k, t)
         ELSE LET results2 == Append(results, Candidate(rs[i], t))
              IN IF Len(results2) >= top_k THEN results2
                 ELSE GraphSearchFrom(rs, i + 1, results2, top_k, t)

\* what _graph_search may return for a query
GraphSearchResults(be, store, q, top_k, t) ==
    {GraphSearchFrom(rs, 1, << >>, top_k, t) :
        rs \in SearchResults(be, store, ExtractEntitiesFromQuery(q), top_k * 2)}

\* ------------------------------------------- Context Assembler, assemble
MaxContextTokens == 3000
SlidingWindowTokens == 2000
VectorSearchTopK == 15
RerankTopK == 5
DecayHigh == 180
DecayMedium == 60
DecayLow == 14

\* a message of the conversation history: content holds the words of a text
\* of len characters
Message(role, content, len) == [role |-> role, content |-> content, len |-> len]

\* the length of " ".join(words)
RECURSIVE Chars(_)
Chars(words) ==
    IF words = << >> THEN 0
    ELSE Len(Head(words)) + (IF Len(words) > 1 THEN 1 + Chars(Tail(words)) ELSE 0)

\* ContextAssembler._count_tokens of a text of n characters
CountTokens(n) == IF n \div 4 < 1 THEN 1 ELSE n \div 4

\* ContextAssembler._get_sliding_window: the messages whose lines it joins,
\* by its loop from the last message down
GetSlidingWindow(history) ==
    LET RECURSIVE SlidingFrom(_, _, _)
        SlidingFrom(i, result, tokens) ==
            IF i < 1 THEN result
            ELSE LET msg_tokens == CountTokens(history[i].len)
                 IN IF tokens + msg_tokens > SlidingWindowTokens THEN result
                    ELSE SlidingFrom(i - 1, <<history[i]>> \o result,
                                     tokens + msg_tokens)
    IN SlidingFrom(Len(history), << >>, 0)

\* the length of the window's text: "ROLE: content" lines joined by newlines
RECURSIVE SlidingChars(_)
SlidingChars(window) ==
    IF window = << >> THEN 0
    ELSE Len(Head(window).role) + 2 + Head(window).len
         + (IF Len(window) > 1 THEN 1 + SlidingChars(Tail(window)) ELSE 0)

\* sorted(..., reverse=True): the positions of keys in descending order, equal
\* keys in their original order
SortDesc(keys) ==
    LET Rank(i) == 1 + Cardinality({j \in DOMAIN keys :
                            keys[j] > keys[i] \/ (keys[j] = keys[i] /\ j < i)})
    IN [p \in DOMAIN keys |-> CHOOSE i \in DOMAIN keys : Rank(i) = p]

\* vector_search: the table returns the top_k * 2 rows nearest to the
\* embedding (which rows are near is the embedding model's matter), then the
\* combined score 0.7 * rank + 0.3 * utility, in units of 1/(100 * n), sorts;
\* every row returned carries its _combined_score as num / den
VectorSearch(table, top_k) ==
    LET n == IF Len(table) < top_k * 2 THEN Len(table) ELSE top_k * 2
        Nearest == {o \in [1..n -> DOMAIN table] :
                        \A i, j \in 1..n : i # j => o[i] # o[j]}
    IN {LET result == [k \in 1..n |-> table[o[k]]]
            combined == [k \in 1..n |->
                            70 * (n - (k - 1)) + 3 * result[k].utility_score * n]
            order == SortDesc(combined)
        IN Prefix([k \in 1..n |->
                      ("_combined_score" :> [num |-> combined[order[k]], den |-> 100 * n])
                      @@ result[order[k]]], top_k) : o \in Nearest}

\* RetrievedContext of a hit of the vector table (_vector_search) or of a
\* candidate of the graph leg; scores in units of 1/10000, utility in tenths,
\* temporal_score in thousandths
Retrieved(c) ==
    IF c.source = "vector"
    THEN [content |-> c.content, source |-> "vector",
          relevance_score |-> 1000 * c.utility_score, temporal_score |-> 1000,
          final_score |-> 1000 * c.utility_score,
          created_at |-> c.created_at, fact_type |-> c.fact_type,
          utility_score |-> c.utility_score]
    ELSE [content |-> c.content, source |-> "graph",
          relevance_score |-> c.relevance_score, temporal_score |-> 1000,
          final_score |-> c.relevance_score,
          created_at |-> c.created_at, fact_type |-> "episodic", utility_score |-> 5]

\* ContextAssembler._merge_results: one candidate per (content, source), the
\* one with the higher final score, in the order of first appearance
MergeResults(vector_results, graph_res) ==
    LET RECURSIVE MergeFrom(_, _)
        MergeFrom(cands, merged) ==
            IF cands = << >> THEN merged
            ELSE LET c == Head(cands)
                     same == {k \in DOMAIN merged : /\ merged[k].content = c.content
                                                    /\ merged[k].source = c.source}
                 IN MergeFrom(Tail(cands),
                        IF same = {} THEN Append(merged, c)
                        ELSE LET k == CHOOSE k \in same : TRUE
                             IN IF c.final_score > merged[k].final_score
                                THEN [merged EXCEPT ![k] = c] ELSE merged)
    IN MergeFrom(vector_results \o graph_res, << >>)

\* 0.5 ** (age_days / decay_days) in thousandths: exact at the multiples of
\* the half-life, linear between two of them
HalfPow(age_days, decay_days) ==
    LET k == age_days \div decay_days
        hi == 1000 \div (2 ^ k)
        lo == 1000 \div (2 ^ (k + 1))
    IN hi - ((hi - lo) * (age_days % decay_days)) \div decay_days

\* self.decay_rates as the settings give them: half-lives in days
DecayRates == [high |-> DecayHigh, medium |-> DecayMedium, low |-> DecayLow]

\* a decay that does not look at the fact type
CalculateTemporalDecayCoreToo(decay_rates, created_at, fact_type, utility_score, t) ==
    LET decay_days == IF utility_score >= 9 THEN decay_rates.high
                      ELSE IF utility_score >= 5 THEN decay_rates.medium
                      ELSE decay_rates.low
    IN IF decay_days = 0 THEN 1000 ELSE HalfPow(t - created_at, decay_days)

\* ContextAssembler._calculate_temporal_decay at time t, in thousandths
CalculateTemporalDecay(decay_rates, created_at, fact_type, utility_score, t) ==
    IF fact_type = "core" THEN 1000
    ELSE LET decay_days == IF utility_score >= 9 THEN decay_rates.high
                           ELSE IF utility_score >= 5 THEN decay_rates.medium
                           ELSE decay_rates.low
         IN IF decay_days = 0 THEN 1000 ELSE HalfPow(t - created_at, decay_days)

\* lines 71-77 of assemble: _merge_results, then the temporal decay of what
\* is left; final scores in units of 1/10^7
MergeAndDecay(vector_results, graph_res, t) ==
    LET merged == MergeResults(vector_results, graph_res)
    IN [k \in DOMAIN merged |->
            LET d == CalculateTemporalDecay(DecayRates, merged[k].created_at,
                                            merged[k].fact_type,
                                            merged[k].utility_score, t)
            IN [merged[k] EXCEPT !.temporal_score = d,
                                 !.final_score = merged[k].relevance_score * d]]

\* ContextAssembler._extract_last_user_message: << >> stands for None
ExtractLastUserMessage(history) ==
    LET users == {i \in DOMAIN history : history[i].role = "user"}
    IN IF users = {} THEN << >>
       ELSE <<history[CHOOSE i \in users : \A j \in users : j <= i]>>

\* str.lower on the words of the conversation
Lower(words) ==
    [k \in DOMAIN words |->
        CASE words[k] = "User" -> "user"
          [] words[k] = "Mom" -> "mom"
          [] words[k] = "Philadelphia" -> "philadelphia"
          [] words[k] = "Massachusetts" -> "massachusetts"
          [] words[k] = "VISITING" -> "visiting"
          [] words[k] = "RETURNED_HOME" -> "returned_home"
          [] OTHER -> words[k]]

\* lowered in candidate.content.lower(), for a message that is all in its words
IsSubstring(msg, content) ==
    /\ msg.content # << >>
    /\ msg.len = Chars(msg.content)
    /\ \E i \in 0..(Len(content) - Len(msg.content)) :
            SubSeq(Lower(content), i + 1, i + Len(msg.content)) = Lower(msg.content)

\* a _rerank whose boost doubles the score
RerankDoubling(candidates, scores, top_k, last_user_message) ==
    LET final == [k \in DOMAIN candidates |->
                    candidates[k].final_score
                    * (IF scores[k] # 0 THEN scores[k] ELSE 10)
                    * (IF /\ last_user_message # << >>
                          /\ IsSubstring(last_user_message[1], candidates[k].content)
                       THEN 20 ELSE 10)]
        order == SortDesc(final)
    IN Prefix([k \in DOMAIN candidates |->
                  [candidates[order[k]] EXCEPT !.final_score = final[order[k]]]],
              top_k)

\* ContextAssembler._rerank with the scores the reranker predicted (in
\* tenths): final scores in units of 1/10^9
Rerank(candidates, scores, top_k, last_user_message) ==
    LET final == [k \in DOMAIN candidates |->
                    candidates[k].final_score
                    * (IF scores[k] # 0 THEN scores[k] ELSE 10)
                    * (IF /\ last_user_message # << >>
                          /\ IsSubstring(last_user_message[1], candidates[k].content)
                       THEN 14 ELSE 10)]
        order == SortDesc(final)
    IN Prefix([k \in DOMAIN candidates |->
                  [candidates[order[k]] EXCEPT !.final_score = final[order[k]]]],
              top_k)

\* a _format_memories that stops once the budget is passed
FormatMemoriesThenStop(memories, max_tokens) ==
    LET RECURSIVE FormatFrom(_, _, _)
        FormatFrom(i, entries, tokens) ==
            IF i > Len(memories) \/ tokens > max_tokens THEN entries
            ELSE FormatFrom(i + 1, Append(entries, memories[i].content),
                            tokens + CountTokens(Chars(memories[i].content)))
    IN FormatFrom(1, << >>, 0)

\* ContextAssembler._format_memories: the contents of the "- ..." lines
FormatMemories(memories, max_tokens) ==
    LET RECURSIVE FormatFrom(_, _, _)
        FormatFrom(i, entries, tokens) ==
            IF i > Len(memories) THEN entries
            ELSE LET entry_tokens == CountTokens(Chars(memories[i].content))
                 IN IF tokens + entry_tokens > max_tokens THEN entries
                    ELSE FormatFrom(i + 1, Append(entries, memories[i].content),
                                    tokens + entry_tokens)
    IN FormatFrom(1, << >>, 0)

\* remaining_tokens of assemble
RemainingTokens(max_context_tokens, sliding_context) ==
    LET sliding_tokens == CountTokens(SlidingChars(sliding_context))
    IN IF max_context_tokens - sliding_tokens < 0 THEN 0
       ELSE max_context_tokens - sliding_tokens

\* no assemble call yet
NotAssembled ==
    [status |-> "none", failed |-> "none", sliding |-> << >>, memories |-> << >>]

\* ContextAssembler.assemble once both searches are back: merge, decay,
\* rerank, format, _build_final_context
AssembleFrom(history, vector_results, graph_res, scores, t) ==
    LET sliding_context == GetSlidingWindow(history)
        remaining_tokens == RemainingTokens(MaxContextTokens, sliding_context)
        all_candidates ==
            MergeAndDecay([k \in DOMAIN vector_results |-> Retrieved(vector_results[k])],
                          [k \in DOMAIN graph_res |-> Retrieved(graph_res[k])], t)
        reranked == Rerank(all_candidates, scores, RerankTopK,
                           ExtractLastUserMessage(history))
    IN [status |-> "returned", failed |-> "none", sliding |-> sliding_context,
        memories |-> FormatMemories(reranked, remaining_tokens)]

\* ------------------------------------------------- retry_on_timeout
\* the stages of the observer that call self.llm.generate, and those whose
\* call goes through retry_on_timeout
GeneratorCallers ==
    {"_grade_utility", "_generate_summary", "_generate_retrieval_queries",
     "_extract_structured_data", "_detect_semantic_contradictions"}

Wrapped(caller) == caller # "_detect_semantic_contradictions"

\* what one OllamaClient.generate comes to: the response text, or an
\* exception of httpx (the 180 s timeout covers connecting and reading)
GenerateOutcomes == {"response", "ReadTimeout", "ConnectTimeout", "HTTPStatusError"}

IsTimeout(outcome) == outcome \in {"ReadTimeout", "ConnectTimeout"}

\* no generator call under way; made counts the calls started
NoCall ==
    [pc |-> "idle", caller |-> None, attempt |-> 0, outcomes |-> << >>,
     slept |-> << >>, made |-> 0]

\* the except clause of retry_on_timeout that retries
Retried(outcome) == outcome = "ReadTimeout"

\* ------------------------------------------------------------ the state
VARIABLES
    backend,         \* which GraphStore create_graph_store returned
    topic,           \* what the conversation is about (the generator's vocabulary)
    now,             \* the clock (datetime.utcnow)
    rels,            \* the graph store's relationships, oldest first
    nodes,           \* the graph store's entities
    chunks,          \* the vector table
    frames,          \* one frame per spawned observer task
    observer_tasks,  \* _observer_tasks
    permits,         \* the value of _observer_semaphore
    mainpc,          \* run_chat: "chat", "waiting" (in wait_for_observers), "exited"
    awaited,         \* the tasks handed to asyncio.gather by wait_for_observers
    logged,          \* the tasks whose exception wait_for_observers logged
    wait_result,     \* how wait_for_observers ended
    graph_results,   \* the candidates of the last ContextAssembler._graph_search
    searched_at,     \* when it ran
    assembled,       \* how the last ContextAssembler.assemble ended
    calls,           \* the calls a client made on the graph store, in order
    history_len,     \* len(history) of run_chat
    retry,           \* the generator call an observer stage is making
    applied          \* the last call of a function of the memory layer

vars == <<backend, topic, now, rels, nodes, chunks, frames, observer_tasks,
          permits, mainpc, awaited, logged, wait_result, graph_results, searched_at,
          assembled, calls, history_len, retry, applied>>

storeVars == <<rels, nodes>>
mainVars == <<mainpc, awaited, logged, wait_result>>
searchVars == <<graph_results, searched_at, assembled>>
envVars == <<backend, topic>>
fnVars == <<retry, applied>>

\* ---------------------------------------------------- generator responses
GradeWords(tp) ==
    IF tp = "smalltalk" THEN {"DISCARD", "STORE", "thinking..."}
    ELSE {"DISCARD", "IMPORTANT"}

\* Observer._grade_utility: UtilityGrade(cleaned.lower()), LOW on ValueError
ParseGrade(word) ==
    IF word \in {"DISCARD", "STORE", "IMPORTANT", "LOW", "MEDIUM", "HIGH"}
    THEN word ELSE "LOW"

\* Observer._utility_to_score, in tenths
UtilityToScore(grade) ==
    CASE grade = "DISCARD" -> 0
      [] grade \in {"STORE", "MEDIUM"} -> 6
      [] grade \in {"IMPORTANT", "HIGH"} -> 10
      [] grade = "LOW" -> 3
      [] OTHER -> 6

\* what one extraction call can come to: the call raises, the text holds no
\* JSON, the JSON has another shape, or it is an extraction dict
ExtractionResponses(tp) ==
    {[kind |-> k, fact_type |-> None, entities |-> << >>, relationships |-> << >>] :
        k \in {"raise", "unparseable", "malformed", "ok"}}
    \cup {[kind |-> "ok", fact_type |-> "core",
           entities |-> <<EntityDict(f.subject, "Person")>>,
           relationships |-> <<RelDict(f)>>] : f \in Facts(tp)}

\* Observer._extract_structured_data after its except clause
ExtractedData(resp) ==
    IF resp.kind = "unparseable"
    THEN [resp EXCEPT !.fact_type = None, !.entities = << >>, !.relationships = << >>]
    ELSE resp

TagAll(rs, source, confidence) ==
    [i \in DOMAIN rs |-> [rs[i] EXCEPT !.source = source, !.confidence = confidence]]

FilterAssistantKeepsAll(user_rels, assistant_rels) == assistant_rels

\* the assistant relationships that survive the user's (subject, predicate) keys
FilterAssistant(user_rels, assistant_rels) ==
    SelectSeq(assistant_rels,
              LAMBDA r : \A i \in DOMAIN user_rels :
                            ~(user_rels[i].subject = r.subject
                              /\ user_rels[i].predicate = r.predicate))

MergeRelationships(user_data, assistant_data) ==
    LET u == TagAll(user_data.relationships, "user_stated", ConfUser)
        a == TagAll(assistant_data.relationships, "assistant_inferred", ConfAssistant)
    IN u \o FilterAssistant(u, a)

\* user_data.get("fact_type", "episodic")
FactType(user_data) ==
    IF user_data.fact_type = None THEN "episodic" ELSE user_data.fact_type

Shown(existing) == SubSeq(existing, 1, IF Len(existing) < ExistingLimit
                                       THEN Len(existing) ELSE ExistingLimit)

\* what the contradiction prompt can come to for the facts it was shown
VerdictResponses(existing) ==
    {[kind |-> k, contradictions |-> << >>] : k \in {"raise", "unparseable", "ok"}}
    \cup {[kind |-> "ok",
           contradictions |-> <<[existing_id |-> Shown(existing)[i].id,
                                 existing_statement |-> Statement(Shown(existing)[i]),
                                 confidence |-> c]>>] :
            i \in DOMAIN Shown(existing), c \in {"high", "low"}}

\* a fallback that does not look at the predicate
SimpleContradictionCheckAnyPredicate(new_rel, existing) ==
    LET hits == SelectSeq(existing,
                    LAMBDA e : /\ e.subject = new_rel.subject
                               /\ e.object # new_rel.object)
    IN [i \in DOMAIN hits |-> [existing_id |-> hits[i].id,
                               existing_statement |-> Statement(hits[i]),
                               confidence |-> "high"]]

\* Observer._simple_contradiction_check
SimpleContradictionCheck(new_rel, existing) ==
    LET hits == SelectSeq(existing,
                    LAMBDA e : /\ e.subject = new_rel.subject
                               /\ e.predicate = new_rel.predicate
                               /\ e.object # new_rel.object)
    IN [i \in DOMAIN hits |-> [existing_id |-> hits[i].id,
                               existing_statement |-> Statement(hits[i]),
                               confidence |-> "high"]]

\* Observer._detect_semantic_contradictions
DetectSemanticContradictions(new_rel, existing, resp) ==
    IF resp.kind = "unparseable" THEN SimpleContradictionCheck(new_rel, existing)
    ELSE resp.contradictions

\* a check that lets every reported contradiction through
ActedUponAny(c) == TRUE

\* if contradiction.get("confidence") == "high"
ActedUpon(c) == c.confidence = "high"

\* the id handed to mark_contradiction
ObserverMarkId(id) == IF id[1] # "int" /\ IsDigit(id) THEN ToInt(id) ELSE id

\* the superseded copy _persist_to_graph_store builds from existing_statement
SupersededCopy(c) ==
    LET w == c.existing_statement
    IN [RelDict(Triple(<<w[1]>>, w[2], <<w[Len(w)]>>)) EXCEPT !.meta_superseded = TRUE]

\* ------------------------------------------------------- observer frames
\* The locals of one _process_turn_with_semaphore task.  calls_after counts
\* the generator calls after the grading call, effects the store writes;
\* warned: "Contradiction detection JSON parse failed" was logged.
NewFrame ==
    [pc |-> "queued", turn_index |-> 0, attempt |-> 0, grade |-> None, fact_type |-> None,
     summary |-> None, entities |-> << >>, relationships |-> << >>,
     extracted |-> [user |-> << >>, assistant |-> << >>],
     contradictions |-> << >>, queries |-> << >>,
     ci |-> 0, existing |-> << >>, todo |-> << >>,
     vpc |-> "none", gpc |-> "none", gi |-> 0,
     calls_after |-> 0, effects |-> 0, warned |-> FALSE]

\* process_turn raised: its locals are gone, except those a persistence
\* side that is still running holds on to; how the two sides ended and
\* the count of the writes made stay
Raised(f) ==
    IF f.pc = "persist" /\ (f.gpc = "pending" \/ f.vpc = "embedding")
    THEN [f EXCEPT !.pc = "failed"]
    ELSE [NewFrame EXCEPT !.pc = "failed", !.turn_index = f.turn_index,
                          !.vpc = f.vpc, !.gpc = f.gpc, !.effects = f.effects]

Tasks == DOMAIN frames
Running == {"grading", "fanout", "check", "verdict", "marking", "persist"}
Finished == {"done", "failed"}

EarlyExitNever(grade) == FALSE

\* the early exit of process_turn
EarlyExit(grade) == grade = "DISCARD"

\* the graph writes of _persist_to_graph_store, in order: entities,
\* relationships, one superseded copy per contradiction
GraphOpCount(f) == Len(f.entities) + Len(f.relationships) + Len(f.contradictions)

ApplyGraphOp(be, st, f, k, t, who) ==
    LET ne == Len(f.entities)
        nr == Len(f.relationships)
    IN IF k <= ne
       THEN [rels |-> st.rels,
             nodes |-> PersistEntity(be, st.nodes, f.entities[k], t, who)]
       ELSE LET rel == IF k <= ne + nr THEN f.relationships[k - ne]
                       ELSE SupersededCopy(f.contradictions[k - ne - nr])
            IN [rels |-> PersistOne(be, st.rels, rel, t, who),
                nodes |-> NodesAfterRel(be, st.nodes, rel, who)]

RECURSIVE ApplyGraphOps(_, _, _, _, _, _)
ApplyGraphOps(be, st, f, k, t, who) ==
    IF k > GraphOpCount(f) THEN st
    ELSE ApplyGraphOps(be, ApplyGraphOp(be, st, f, k, t, who), f, k + 1, t, who)

\* with nothing to write, _persist_to_graph_store ends without suspending
StartPersist(f) ==
    [f EXCEPT !.pc = "persist", !.vpc = "embedding", !.gi = 1,
              !.gpc = IF GraphOpCount(f) = 0 THEN "done" ELSE "pending"]

Related(be, store, rel) == GetRelatedFacts(be, store, rel.subject, rel.object)

\* a _check_contradictions that returns after its first relationship
EnterCheckOnce(be, store, f) ==
    IF f.ci > 1 THEN StartPersist(f)
    ELSE IF be = "memory"
    THEN LET js == {j \in f.ci..Len(f.relationships) :
                        Related(be, store, f.relationships[j]) # << >>}
         IN IF js = {} THEN StartPersist([f EXCEPT !.ci = Len(f.relationships) + 1])
            ELSE LET j == CHOOSE x \in js : \A y \in js : x <= y
                 IN [f EXCEPT !.pc = "verdict", !.ci = j,
                              !.existing = Related(be, store, f.relationships[j])]
    ELSE IF f.ci > Len(f.relationships) THEN StartPersist(f)
         ELSE [f EXCEPT !.pc = "check"]

\* the loop head of _check_contradictions from relationship f.ci on.  The
\* in-memory store answers query without suspending, so the loop runs on to
\* the first relationship with related facts; FalkorDB's query is an RPC.
\* Past the last relationship the loop is over and the persistence starts.
EnterCheck(be, store, f) ==
    IF be = "memory"
    THEN LET js == {j \in f.ci..Len(f.relationships) :
                        Related(be, store, f.relationships[j]) # << >>}
         IN IF js = {} THEN StartPersist([f EXCEPT !.ci = Len(f.relationships) + 1])
            ELSE LET j == CHOOSE x \in js : \A y \in js : x <= y
                 IN [f EXCEPT !.pc = "verdict", !.ci = j,
                              !.existing = Related(be, store, f.relationships[j])]
    ELSE IF f.ci > Len(f.relationships) THEN StartPersist(f)
         ELSE [f EXCEPT !.pc = "check"]

RECURSIVE MarkAll(_, _, _, _)
MarkAll(be, store, todo, t) ==
    IF todo = << >> THEN store
    ELSE MarkAll(be, MarkContradiction(be, store, todo[1].id, todo[1].stmt, t),
                 Tail(todo), t)

CanAcquireAlways(value) == TRUE

\* asyncio.Semaphore.acquire goes through without waiting
CanAcquire(value) == value > 0

GatherFirstException(fs, tasks) ==
    \/ \E t \in tasks : fs[t].pc = "failed"
    \/ \A t \in tasks : fs[t].pc \in Finished

\* asyncio.gather(*tasks, return_exceptions=True) is done
GatherDone(fs, tasks) == \A t \in tasks : fs[t].pc \in Finished

\* --------------------------------------------------------------- actions
Alive == mainpc # "exited"

\* a turn index read once run_chat has appended the turn to history
TurnIndexAfterAppend(history_length) == history_length + 2

\* turn_index=len(state["conversation_history"]) of generate_response_streaming
TurnIndex(history_length) == history_length

\* one turn of run_chat: the reply is streamed, the observer task is created
\* and appended to _observer_tasks
SpawnUpTo(limit) ==
    /\ mainpc = "chat"
    /\ Len(frames) < limit
    /\ frames' = Append(frames, [NewFrame EXCEPT !.turn_index = TurnIndex(history_len)])
    /\ observer_tasks' = Append(observer_tasks, Len(frames) + 1)
    /\ history_len' = history_len + 2
    /\ UNCHANGED <<envVars, calls, fnVars, now, storeVars, chunks, permits, mainVars, searchVars>>

Spawn == SpawnUpTo(MaxTasks)

SpawnObserver == SpawnUpTo(MaxObservers)

\* async with _observer_semaphore
Acquire(t) ==
    /\ Alive
    /\ frames[t].pc = "queued"
    /\ CanAcquire(permits)
    /\ permits' = permits - 1
    /\ frames' = [frames EXCEPT ![t].pc = "grading"]
    /\ UNCHANGED <<envVars, calls, history_len, fnVars, now, storeVars, chunks, observer_tasks, mainVars, searchVars>>

\* a wrapper that gives the permit back only when process_turn returns
LeaveHoldingOnRaise(t, f) ==
    /\ frames' = [frames EXCEPT ![t] = f]
    /\ permits' = IF f.pc = "done" THEN permits + 1 ELSE permits

\* process_turn leaves (return or raise) and the semaphore is released
Leave(t, f) ==
    /\ frames' = [frames EXCEPT ![t] = f]
    /\ permits' = IF f.pc \in Finished THEN permits + 1 ELSE permits

\* one attempt of the grading call inside retry_on_timeout
Grade(t) ==
    /\ Alive
    /\ frames[t].pc = "grading"
    /\ \E outcome \in GradeWords(topic) \cup {"timeout", "error"} :
        LET f == frames[t]
            left == [f EXCEPT !.attempt = 0]
        IN CASE outcome = "timeout" ->
                  IF f.attempt = MaxRetries - 1
                  THEN Leave(t, Raised(left))
                  ELSE Leave(t, [f EXCEPT !.attempt = @ + 1])
             [] outcome = "error" -> Leave(t, Raised(left))
             [] OTHER ->
                  LET g == ParseGrade(outcome)
                  IN IF EarlyExit(g)
                     THEN Leave(t, [left EXCEPT !.grade = g, !.pc = "done"])
                     ELSE Leave(t, [left EXCEPT !.grade = g, !.pc = "fanout"])
    /\ UNCHANGED <<envVars, calls, history_len, fnVars, now, storeVars, chunks, observer_tasks, mainVars, searchVars>>

\* the four calls of the fan-out have come back, the relationships are
\* tagged and merged, and _check_contradictions starts
FanOut(t) ==
    /\ Alive
    /\ frames[t].pc = "fanout"
    /\ \E u \in ExtractionResponses(topic), a \in ExtractionResponses(topic),
          s \in {"ok", "raise"}, q \in {"ok", "raise"} :
        LET f == [frames[t] EXCEPT !.calls_after = @ + 4]
            ud == ExtractedData(u)
            ad == ExtractedData(a)
        IN IF \/ "raise" \in {u.kind, a.kind, s, q}
              \/ "malformed" \in {u.kind, a.kind}
           THEN Leave(t, Raised(f))
           ELSE Leave(t, EnterCheck(backend, rels,
                    [f EXCEPT !.summary = "summary",
                              !.queries = <<"query">>,
                              !.entities = ud.entities \o ad.entities,
                              !.extracted = [user |-> ud.relationships,
                                             assistant |-> ad.relationships],
                              !.relationships = MergeRelationships(ud, ad),
                              !.fact_type = FactType(ud),
                              !.ci = 1]))
    /\ UNCHANGED <<envVars, calls, history_len, fnVars, now, storeVars, chunks, observer_tasks, mainVars, searchVars>>

\* FalkorDB only: the queries of _get_related_facts come back
CheckQuery(t) ==
    /\ Alive
    /\ frames[t].pc = "check"
    /\ \E outcome \in {"ok", "raise"} :
        LET f == frames[t]
            ex == Related(backend, rels, f.relationships[f.ci])
        IN IF outcome = "raise" THEN Leave(t, Raised(f))
           ELSE IF ex = << >>
                THEN Leave(t, EnterCheck(backend, rels, [f EXCEPT !.ci = @ + 1]))
                ELSE Leave(t, [f EXCEPT !.pc = "verdict", !.existing = ex])
    /\ UNCHANGED <<envVars, calls, history_len, fnVars, now, storeVars, chunks, observer_tasks, mainVars, searchVars>>

\* the contradiction prompt's call comes back with resp; high-confidence
\* contradictions are recorded and their facts marked
VerdictWith(t, resp) ==
    /\ frames[t].pc = "verdict"
    /\  LET f == [frames[t] EXCEPT !.calls_after = @ + 1,
                                   !.warned = @ \/ resp.kind = "unparseable"]
            new_rel == f.relationships[f.ci]
            found == DetectSemanticContradictions(new_rel, f.existing, resp)
            high == SelectSeq(found, ActedUpon)
            recs == [i \in DOMAIN high |->
                        [existing_fact_id |-> high[i].existing_id,
                         existing_statement |-> high[i].existing_statement,
                         new_statement |-> Statement(new_rel)]]
            marks == [i \in DOMAIN high |->
                        [id |-> ObserverMarkId(high[i].existing_id),
                         stmt |-> Statement(new_rel)]]
            g == [f EXCEPT !.contradictions = @ \o recs, !.existing = << >>]
        IN IF resp.kind = "raise"
           THEN /\ Leave(t, Raised(f))
                /\ UNCHANGED rels
           ELSE IF backend = "memory"
                THEN /\ rels' = MarkAll(backend, rels, marks, now)
                     /\ Leave(t, EnterCheck(backend, rels',
                              [g EXCEPT !.ci = @ + 1, !.effects = @ + Len(marks)]))
                ELSE /\ UNCHANGED rels
                     /\ IF marks = << >>
                        THEN Leave(t, EnterCheck(backend, rels, [g EXCEPT !.ci = @ + 1]))
                        ELSE Leave(t, [g EXCEPT !.pc = "marking", !.todo = marks])
    /\ UNCHANGED <<envVars, calls, history_len, fnVars, now, nodes, chunks, observer_tasks, mainVars, searchVars>>

Verdict(t) ==
    /\ Alive
    /\ \E resp \in VerdictResponses(frames[t].existing) : VerdictWith(t, resp)

\* FalkorDB only: one mark_contradiction RPC
MarkStep(t) ==
    /\ Alive
    /\ frames[t].pc = "marking"
    /\ \E outcome \in {"ok", "raise"} :
        LET f == frames[t]
            m == f.todo[1]
            g == [f EXCEPT !.todo = Tail(@), !.effects = @ + 1]
        IN IF outcome = "raise"
           THEN /\ Leave(t, Raised(f))
                /\ UNCHANGED rels
           ELSE /\ rels' = MarkContradiction(backend, rels, m.id, m.stmt, now)
                /\ IF g.todo = << >>
                   THEN Leave(t, EnterCheck(backend, rels', [g EXCEPT !.ci = @ + 1]))
                   ELSE Leave(t, g)
    /\ UNCHANGED <<envVars, calls, history_len, fnVars, now, nodes, chunks, observer_tasks, mainVars, searchVars>>

\* _persist_to_graph_store: in one go on the in-memory store, one RPC at a
\* time on FalkorDB.  It runs on as its own task when process_turn has
\* already left with the vector side's exception.
GraphPersist(t) ==
    /\ Alive
    /\ frames[t].gpc = "pending"
    /\ \E outcome \in {"ok", "raise"} :
        LET f == frames[t]
            st == [rels |-> rels, nodes |-> nodes]
            n == GraphOpCount(f)
        IN IF backend = "memory"
           THEN /\ outcome = "ok"
                /\ LET st2 == ApplyGraphOps(backend, st, f, 1, now, t)
                   IN /\ rels' = st2.rels
                      /\ nodes' = st2.nodes
                /\ frames' = [frames EXCEPT ![t] =
                                [f EXCEPT !.gpc = "done", !.gi = n + 1,
                                          !.effects = @ + n]]
           ELSE IF f.gi > n
                THEN /\ outcome = "ok"
                     /\ frames' = [frames EXCEPT ![t].gpc = "done"]
                     /\ UNCHANGED storeVars
                ELSE IF outcome = "raise"
                     THEN /\ frames' = [frames EXCEPT ![t].gpc = "raised"]
                          /\ UNCHANGED storeVars
                     ELSE LET st2 == ApplyGraphOp(backend, st, f, f.gi, now, t)
                          IN /\ rels' = st2.rels
                             /\ nodes' = st2.nodes
                             /\ frames' = [frames EXCEPT ![t] =
                                  [f EXCEPT !.gi = @ + 1, !.effects = @ + 1,
                                            !.gpc = IF f.gi = n THEN "done" ELSE @]]
    /\ UNCHANGED <<envVars, calls, history_len, fnVars, now, chunks, observer_tasks, permits, mainVars, searchVars>>

\* MemoryChunk of _persist_to_vector_store; embedding is the length of the
\* vector the embedder returned
Chunk(f, t, embedding) ==
    [id |-> t, turn_index |-> f.turn_index, created_at |-> t, last_accessed_at |-> t,
     access_count |-> 0, summary |-> f.summary, retrieval_queries |-> f.queries,
     utility_score |-> UtilityToScore(f.grade), fact_type |-> f.fact_type,
     embedding |-> embedding]

\* the lengths of the vectors an embedding model returns: llama3's 4096,
\* nomic-embed-text's 768
EmbeddingLengths == {EmbedDim, 768}

\* a persist_chunks that adds record by record
PersistChunksOneByOne(table, cs) ==
    LET RECURSIVE AddFrom(_, _)
        AddFrom(i, tb) ==
            IF i > Len(cs) THEN [raised |-> FALSE, table |-> tb]
            ELSE IF cs[i].embedding # EmbedDim THEN [raised |-> TRUE, table |-> tb]
            ELSE AddFrom(i + 1, Append(tb, cs[i]))
    IN AddFrom(1, table)

\* persist_chunks: every record is prepared, the first embedding of another
\* length than EMBED_DIM raises ValueError, and table.add comes last
PersistChunks(table, cs) ==
    LET RECURSIVE PrepareFrom(_, _)
        PrepareFrom(i, prepared) ==
            IF i > Len(cs) THEN [raised |-> FALSE, table |-> table \o prepared]
            ELSE IF cs[i].embedding # EmbedDim THEN [raised |-> TRUE, table |-> table]
            ELSE PrepareFrom(i + 1, Append(prepared, cs[i]))
    IN IF cs = << >> THEN [raised |-> FALSE, table |-> table]
       ELSE PrepareFrom(1, << >>)

\* _persist_to_vector_store: the embedding comes back, of llama3's length
\* or of nomic-embed-text's, or the call raises; persist_chunks adds the
\* chunk or raises on its length
VectorPersist(t) ==
    /\ Alive
    /\ frames[t].vpc = "embedding"
    /\ backend = "memory" => frames[t].gpc # "pending"
    /\ \/ /\ UNCHANGED chunks
          /\ frames' = [frames EXCEPT ![t].vpc = "raised"]
       \/ \E embedding \in EmbeddingLengths :
            LET r == PersistChunks(chunks, <<Chunk(frames[t], now, embedding)>>)
            IN /\ chunks' = r.table
               /\ frames' = [frames EXCEPT ![t] =
                     IF r.raised THEN [@ EXCEPT !.vpc = "mismatch"]
                     ELSE [@ EXCEPT !.vpc = "done", !.effects = @ + 1]]
    /\ UNCHANGED <<envVars, calls, history_len, fnVars, now, storeVars, observer_tasks, permits, mainVars, searchVars>>

\* the gather of the two persistence sides is over: both finished, or
\* one raised
Return(t) ==
    /\ Alive
    /\ frames[t].pc = "persist"
    /\ LET f == frames[t]
       IN \/ /\ f.vpc \in {"raised", "mismatch"} \/ f.gpc = "raised"
             /\ Leave(t, Raised(f))
          \/ /\ f.vpc = "done" /\ f.gpc = "done"
             /\ Leave(t, [f EXCEPT !.pc = "done"])
    /\ UNCHANGED <<envVars, calls, history_len, fnVars, now, storeVars, chunks, observer_tasks, mainVars, searchVars>>

\* run_chat leaves the chat loop and calls wait_for_observers
BeginWait ==
    /\ mainpc = "chat"
    /\ IF observer_tasks = << >>
       THEN /\ mainpc' = "exited"
            /\ wait_result' = "returned"
            /\ UNCHANGED awaited
       ELSE /\ mainpc' = "waiting"
            /\ awaited' = {observer_tasks[i] : i \in DOMAIN observer_tasks}
            /\ UNCHANGED wait_result
    /\ UNCHANGED <<envVars, calls, history_len, fnVars, now, storeVars, chunks, frames, observer_tasks, permits,
                   logged, searchVars>>

\* the gather of wait_for_observers is over: exceptions are logged and the
\* task list is cleared
EndWait ==
    /\ mainpc = "waiting"
    /\ GatherDone(frames, awaited)
    /\ logged' = {t \in awaited : frames[t].pc = "failed"}
    /\ observer_tasks' = << >>
    /\ wait_result' = "returned"
    /\ mainpc' = "exited"
    /\ UNCHANGED <<envVars, calls, history_len, fnVars, now, storeVars, chunks, frames, permits, awaited, searchVars>>

Tick ==
    /\ Alive
    /\ now < MaxTime
    /\ now' = now + 1
    /\ UNCHANGED <<envVars, calls, history_len, fnVars, storeVars, chunks, frames, observer_tasks, permits,
                   mainVars, searchVars>>

\* ------------------------------------------------------------ the session
InitWith(topics) ==
    /\ backend \in {"memory", "falkor"}
    /\ topic \in topics
    /\ now = 0
    /\ rels = << >>
    /\ nodes = {}
    /\ chunks = << >>
    /\ frames = << >>
    /\ observer_tasks = << >>
    /\ permits = ObserverPermits
    /\ mainpc = "chat"
    /\ awaited = {}
    /\ logged = {}
    /\ wait_result = "none"
    /\ graph_results = << >>
    /\ searched_at = NoTime
    /\ assembled = NotAssembled
    /\ calls = << >>
    /\ history_len = 0
    /\ retry = NoCall
    /\ applied = NotApplied

Init == InitWith({"employment", "visit"})

Next ==
    \/ Spawn
    \/ \E t \in Tasks : Acquire(t)
    \/ \E t \in Tasks : Grade(t)
    \/ \E t \in Tasks : FanOut(t)
    \/ \E t \in Tasks : CheckQuery(t)
    \/ \E t \in Tasks : Verdict(t)
    \/ \E t \in Tasks : MarkStep(t)
    \/ \E t \in Tasks : GraphPersist(t)
    \/ \E t \in Tasks : VectorPersist(t)
    \/ \E t \in Tasks : Return(t)

\* the turns of a session and their observer tasks, while the chat goes on
Spec == Init /\ [][Next]_vars

\* a session of small talk: nothing is extracted, so the contradiction
\* stage never has a relationship to check and the graph side nothing to write
InitOrch == InitWith({"smalltalk"})

NextOrch ==
    \/ SpawnObserver
    \/ \E t \in Tasks : Acquire(t)
    \/ \E t \in Tasks : Grade(t)
    \/ \E t \in Tasks : FanOut(t)
    \/ \E t \in Tasks : VectorPersist(t)
    \/ \E t \in Tasks : Return(t)
    \/ BeginWait
    \/ EndWait

SpecOrch == InitOrch /\ [][NextOrch]_vars

\* the same session under a clock that runs on: a chunk's id is the clock's
\* reading when _persist_to_vector_store builds it
NextClock ==
    \/ SpawnObserver
    \/ \E t \in Tasks : Acquire(t)
    \/ \E t \in Tasks : Grade(t)
    \/ \E t \in Tasks : FanOut(t)
    \/ \E t \in Tasks : VectorPersist(t)
    \/ \E t \in Tasks : Return(t)
    \/ Tick

SpecClock == InitOrch /\ [][NextClock]_vars

\* ------------------------------------------- the store through its API
\* relationship dicts as the callers of persist_relationships build them
ApiRelDicts ==
    {[RelDict(f) EXCEPT !.valid_until = vu] : f \in Facts("visit"), vu \in {NoTime, 0}}
    \cup {[RelDict(Visiting) EXCEPT !.status = "ongoing"],
          [RelDict(Visiting) EXCEPT !.status = "completed",
                                    !.superseded_by = Statement(ReturnedHome)]}

ApiQueries == {<<"Mom">>, <<"Philadelphia">>}

ApiPersist ==
    /\ Len(rels) < MaxStore
    /\ \E rel \in ApiRelDicts :
        /\ rels' = PersistOne(backend, rels, rel, now, 0)
        /\ nodes' = NodesAfterRel(backend, nodes, rel, 0)
    /\ UNCHANGED <<envVars, calls, history_len, fnVars, now, chunks, frames, observer_tasks, permits, mainVars,
                   searchVars>>

\* mark_contradiction with the id of a relationship a query returned
ApiMark ==
    /\ \E i \in DOMAIN rels :
        rels' = MarkContradiction(backend, rels, Rel(backend, rels[i]).id,
                                  Statement(ReturnedHome), now)
    /\ UNCHANGED <<envVars, calls, history_len, fnVars, now, nodes, chunks, frames, observer_tasks, permits,
                   mainVars, searchVars>>

\* ContextAssembler._graph_search
GraphSearch ==
    /\ \E q \in ApiQueries, top_k \in {1, GraphSearchTopK} :
        \E res \in GraphSearchResults(backend, rels, q, top_k, now) :
            graph_results' = res
    /\ searched_at' = now
    /\ UNCHANGED <<envVars, calls, history_len, fnVars, now, storeVars, chunks, frames, observer_tasks, permits,
                   mainVars, assembled>>

InitStore == InitWith({"visit"})

NextStore ==
    \/ ApiPersist
    \/ ApiMark
    \/ GraphSearch
    \/ Tick

SpecStore == InitStore /\ [][NextStore]_vars

\* ------------------------------------------- assemble over a filled memory
\* vector tables earlier turns can have left behind: the rows as
\* vector_search reads them
AsmTables ==
    LET Hit(content, utility_score, fact_type, created_at) ==
            [content |-> content, source |-> "vector", utility_score |-> utility_score,
             fact_type |-> fact_type, created_at |-> created_at]
    IN
    {<< >>,
     <<Hit(<<"Mom", "VISITING", "Philadelphia">>, 3, "episodic", 0)>>,
     <<Hit(<<"Mom", "is", "visiting">>, 10, "core", 0),
       Hit(<<"the", "weather", "is", "nice">>, 6, "episodic", 0)>>}

AsmHistories ==
    {<< >>,
     <<Message("user", <<"mom">>, 3)>>,
     <<Message("user", <<"where", "is", "Mom">>, 4000),
       Message("assistant", <<"in", "Philadelphia">>, 4000),
       Message("user", <<"is", "Mom", "home">>, 11)>>,
     <<Message("user", <<"a", "long", "story">>, 8004)>>}

RerankScores == {0, 9}
AssembleFailures == {"embedder", "vector_search", "graph_search", "reranker"}

\* the graph stores earlier turns can have left behind: up to two
\* relationships persisted at time 0
AsmStores(be) ==
    LET After(m, r) == [rels |-> PersistOne(be, m.rels, r, 0, 0),
                        nodes |-> NodesAfterRel(be, m.nodes, r, 0)]
        empty == [rels |-> << >>, nodes |-> {}]
        one == {After(empty, r) : r \in ApiRelDicts}
    IN {empty} \cup one \cup {After(m, r) : m \in one, r \in ApiRelDicts}

\* ContextAssembler.assemble: nothing in it catches an exception, so the
\* first call that raises ends it; the reranker is only asked when there
\* are candidates, and the in-memory graph store does no I/O
Assemble ==
    /\ \E q \in ApiQueries :
        \E vector_results \in VectorSearch(chunks, VectorSearchTopK),
           graph_res \in GraphSearchResults(backend, rels, q, GraphSearchTopK, now) :
            LET n == Len(MergeResults(
                        [k \in DOMAIN vector_results |-> Retrieved(vector_results[k])],
                        [k \in DOMAIN graph_res |-> Retrieved(graph_res[k])]))
            IN \/ \E failure \in AssembleFailures :
                    /\ failure = "reranker" => n > 0
                    /\ failure = "graph_search" => backend = "falkor"
                    /\ assembled' = [NotAssembled EXCEPT !.status = "raised",
                                                         !.failed = failure]
               \/ \E history \in AsmHistories, score \in RerankScores :
                    assembled' = AssembleFrom(history, vector_results, graph_res,
                                     [k \in 1..n |-> IF k = 1 THEN score ELSE 5], now)
    /\ UNCHANGED <<envVars, calls, history_len, fnVars, now, storeVars, chunks, frames, observer_tasks, permits,
                   mainVars, graph_results, searched_at>>

\* a session whose memory earlier turns have filled
InitAsm ==
    /\ backend \in {"memory", "falkor"}
    /\ topic = "visit"
    /\ now = 0
    /\ \E m \in AsmStores(backend) : rels = m.rels /\ nodes = m.nodes
    /\ chunks \in AsmTables
    /\ frames = << >>
    /\ observer_tasks = << >>
    /\ permits = ObserverPermits
    /\ mainpc = "chat"
    /\ awaited = {}
    /\ logged = {}
    /\ wait_result = "none"
    /\ graph_results = << >>
    /\ searched_at = NoTime
    /\ assembled = NotAssembled
    /\ calls = << >>
    /\ history_len = 0
    /\ retry = NoCall
    /\ applied = NotApplied

NextAsm ==
    \/ Assemble
    \/ Tick

SpecAsm == InitAsm /\ [][NextAsm]_vars

\* ------------------------------------------- the graph store, call by call
MaxCalls == 3

\* what a client passes: relationship dicts (one with its own "id"),
\* entity dicts, superseding statements
CallRelDicts ==
    {RelDict(Visiting), RelDict(ReturnedHome),
     [RelDict(Visiting) EXCEPT !.id = <<"digits", 7>>]}

CallEntities ==
    {[name |-> Mom, type |-> "Person", attributes |-> {<<"city", "Boston">>}],
     [name |-> Mom, type |-> "Person",
      attributes |-> {<<"city", "Philadelphia">>, <<"age", "64">>}]}

CallStatements == {Statement(ReturnedHome), Statement(Visiting)}

\* the id a client hands to mark_contradiction: the id of the pick-th
\* relationship query(subject) returned, as it is or as int(id), or an id
\* no relationship has
MarkId(be, store, a) ==
    LET res == Query(be, store, a.subject)
    IN IF a.form = "absent" \/ a.pick > Len(res) THEN Uuid(0)
       ELSE IF a.form = "int" /\ IsDigit(res[a.pick].id) THEN ToInt(res[a.pick].id)
       ELSE res[a.pick].id

\* one call of the GraphStore interface on a back-end's store
ApplyCall(be, st, c) ==
    CASE c.op = "persist_entities" ->
            [st EXCEPT !.nodes = PersistEntity(be, @, c.arg, c.at, 0)]
      [] c.op = "persist_relationships" ->
            [rels |-> PersistOne(be, st.rels, c.arg, c.at, 0),
             nodes |-> NodesAfterRel(be, st.nodes, c.arg, 0)]
      [] c.op = "mark_contradiction" ->
            [st EXCEPT !.rels = MarkContradiction(be, @, MarkId(be, @, c.arg),
                                                  c.arg.stmt, c.at)]
      [] OTHER -> st

\* the store a back-end holds after a sequence of calls on an empty one
Replay(be, cs) ==
    LET RECURSIVE After(_)
        After(n) == IF n = 0 THEN [rels |-> << >>, nodes |-> {}]
                    ELSE ApplyCall(be, After(n - 1), cs[n])
    IN After(Len(cs))

StoreCall(op, arg, result) ==
    LET c == [op |-> op, arg |-> arg, at |-> now, result |-> result]
        st == ApplyCall(backend, [rels |-> rels, nodes |-> nodes], c)
    IN /\ calls' = Append(calls, c)
       /\ rels' = st.rels
       /\ nodes' = st.nodes
       /\ UNCHANGED <<envVars, history_len, fnVars, now, chunks, frames, observer_tasks,
                      permits, mainVars, searchVars>>

CallPersistEntities ==
    /\ Len(calls) < MaxCalls
    /\ \E e \in CallEntities : StoreCall("persist_entities", e, << >>)

CallPersistRelationships ==
    /\ Len(calls) < MaxCalls
    /\ \E rel \in CallRelDicts : StoreCall("persist_relationships", rel, << >>)

CallMarkContradiction ==
    /\ Len(calls) < MaxCalls
    /\ \E pick \in 1..2, form \in {"str", "int", "absent"}, stmt \in CallStatements :
        LET res == Query(backend, rels, Mom)
        IN /\ form = "absent" => pick = 1
           /\ form # "absent" => pick \in DOMAIN res
           /\ form = "int" => IsDigit(res[pick].id)
           /\ StoreCall("mark_contradiction",
                        [subject |-> Mom, pick |-> pick, form |-> form, stmt |-> stmt],
                        << >>)

CallSearchRelationships ==
    /\ Len(calls) < MaxCalls
    /\ \E limit \in {1, 10} :
        \E res \in SearchResults(backend, rels, {Mom}, limit) :
            StoreCall("search_relationships", [names |-> {Mom}, limit |-> limit], res)

InitCalls == InitWith({"visit"})

NextCalls ==
    \/ CallPersistEntities
    \/ CallPersistRelationships
    \/ CallMarkContradiction
    \/ CallSearchRelationships
    \/ Tick

SpecCalls == InitCalls /\ [][NextCalls]_vars

\* ------------------------------------------- a session with interrupts
\* run_chat starts a turn: the input line is in, generate_response_streaming
\* retrieves the context and streams the reply
BeginTurn ==
    /\ mainpc = "chat"
    /\ Len(frames) < MaxObservers
    /\ mainpc' = "turn"
    /\ UNCHANGED <<envVars, calls, history_len, fnVars, now, storeVars, chunks, frames, observer_tasks, permits,
                   awaited, logged, wait_result, searchVars>>

\* the turn is over: the reply was streamed and the observer task created,
\* or an Exception of the retrieval or of the stream was caught and printed
EndTurn ==
    /\ mainpc = "turn"
    /\ mainpc' = "chat"
    /\ \E outcome \in {"ok", "error"} :
        IF outcome = "ok"
        THEN /\ frames' = Append(frames,
                            [NewFrame EXCEPT !.turn_index = TurnIndex(history_len)])
             /\ observer_tasks' = Append(observer_tasks, Len(frames) + 1)
             /\ history_len' = history_len + 2
        ELSE UNCHANGED <<frames, observer_tasks, history_len>>
    /\ UNCHANGED <<envVars, calls, fnVars, now, storeVars, chunks, permits, awaited, logged,
                   wait_result, searchVars>>

\* asyncio.run cancels every task that is still pending when run_chat is
\* left by an exception; a cancelled process_turn gives its permit back
CancelAll(fs) ==
    [t \in DOMAIN fs |->
        IF fs[t].pc \in Finished THEN fs[t]
        ELSE [fs[t] EXCEPT !.pc = "cancelled", !.vpc = "none", !.gpc = "none"]]

\* an interrupt while the chat loop waits for input: the except clause of
\* the loop gets it and calls wait_for_observers, or it reaches the event
\* loop instead of the coroutine and run_chat is cancelled
InterruptAtInput ==
    /\ mainpc = "chat"
    /\ \E lands \in {"in_chat_loop", "in_event_loop"} :
        IF lands = "in_chat_loop"
        THEN /\ IF observer_tasks = << >>
                THEN /\ mainpc' = "exited"
                     /\ wait_result' = "returned"
                     /\ UNCHANGED awaited
                ELSE /\ mainpc' = "waiting"
                     /\ awaited' = {observer_tasks[i] : i \in DOMAIN observer_tasks}
                     /\ UNCHANGED wait_result
             /\ UNCHANGED <<frames, permits>>
        ELSE /\ mainpc' = "exited"
             /\ frames' = CancelAll(frames)
             /\ permits' = permits + Cardinality({t \in Tasks : frames[t].pc \in Running})
             /\ UNCHANGED <<awaited, wait_result>>
    /\ UNCHANGED <<envVars, calls, history_len, fnVars, now, storeVars, chunks, observer_tasks, logged, searchVars>>

\* an interrupt while the turn is retrieved or streamed: it is no Exception,
\* so the turn's except clause lets it through, run_chat ends without
\* wait_for_observers, asyncio.run cancels the pending tasks and main exits
InterruptInTurn ==
    /\ mainpc = "turn"
    /\ mainpc' = "exited"
    /\ frames' = CancelAll(frames)
    /\ permits' = permits + Cardinality({t \in Tasks : frames[t].pc \in Running})
    /\ UNCHANGED <<envVars, calls, history_len, fnVars, now, storeVars, chunks, observer_tasks, awaited, logged,
                   wait_result, searchVars>>

InitSession == InitWith({"smalltalk"})

NextSession ==
    \/ BeginTurn
    \/ EndTurn
    \/ InterruptAtInput
    \/ InterruptInTurn
    \/ \E t \in Tasks : Acquire(t)
    \/ \E t \in Tasks : Grade(t)
    \/ \E t \in Tasks : FanOut(t)
    \/ \E t \in Tasks : VectorPersist(t)
    \/ \E t \in Tasks : Return(t)
    \/ EndWait

SpecSession == InitSession /\ [][NextSession]_vars

\* ----------------------------- the memory layer, function by function
\* the chunk lists a caller hands to persist_chunks
FnChunkLists ==
    LET cs == {Chunk([NewFrame EXCEPT !.grade = "STORE", !.summary = "summary",
                                      !.fact_type = "episodic"], now, n) :
                    n \in EmbeddingLengths}
    IN {<< >>} \cup {<<c>> : c \in cs} \cup {<<c, d>> : c \in cs, d \in cs}

ApplyPersistChunks ==
    /\ Len(chunks) < MaxStore
    /\ \E cs \in FnChunkLists :
        LET r == PersistChunks(chunks, cs)
        IN /\ chunks' = r.table
           /\ applied' = [op |-> "persist_chunks",
                          input |-> [table |-> chunks, chunks |-> cs],
                          output |-> [raised |-> r.raised]]
    /\ UNCHANGED <<envVars, calls, history_len, retry, now, storeVars, frames,
                   observer_tasks, permits, mainVars, searchVars>>

\* histories of run_chat: none, a turn of 600 characters, messages whose
\* contents come to the sliding window's 2000 tokens or close to them
FnHistories ==
    {<< >>,
     <<Message("user", <<"where", "is", "Mom">>, 600)>>,
     <<Message("user", <<"a", "long", "story">>, 8000)>>,
     <<Message("user", <<"where", "is", "Mom">>, 4000),
       Message("assistant", <<"in", "Philadelphia">>, 3996),
       Message("user", <<"is", "Mom", "home">>, 11)>>}

\* memories as _rerank hands them on: six of 20 tokens each, and one of 40
\* tokens before one of 20 and one of 4
FnMemories ==
    LET Text(word, k) == [content |-> [i \in 1..k |-> word]]
    IN {<< >>,
        <<Text("remember", 9), Text("birthday", 9), Text("visiting", 9),
          Text("daughter", 9), Text("holidays", 9), Text("vacation", 9)>>,
        <<Text("remember", 18), Text("birthday", 9), Text("home", 4)>>}

\* lines 62-63 and 81 of assemble, under the default budget of the
\* settings and under those of a small context
ApplyFormatMemories ==
    /\ \E max_context_tokens \in {0, 50, 200, MaxContextTokens}, history \in FnHistories,
          memories \in FnMemories :
        LET sliding_context == GetSlidingWindow(history)
            remaining_tokens == RemainingTokens(max_context_tokens, sliding_context)
        IN applied' = [op |-> "format_memories",
                       input |-> [max_context_tokens |-> max_context_tokens,
                                  history |-> history, memories |-> memories],
                       output |-> FormatMemories(memories, remaining_tokens)]
    /\ UNCHANGED <<envVars, calls, history_len, retry, now, storeVars, chunks, frames,
                   observer_tasks, permits, mainVars, searchVars>>

ApplyGetSlidingWindow ==
    /\ \E history \in FnHistories :
        applied' = [op |-> "get_sliding_window", input |-> history,
                    output |-> GetSlidingWindow(history)]
    /\ UNCHANGED <<envVars, calls, history_len, retry, now, storeVars, chunks, frames,
                   observer_tasks, permits, mainVars, searchVars>>

\* vector tables of up to two rows: the same text stored by a turn 60 days
\* ago and, graded lower, by a turn of today, and the text of a graph fact
FnTables ==
    LET Hit(content, utility_score, fact_type, created_at) ==
            [content |-> content, source |-> "vector", utility_score |-> utility_score,
             fact_type |-> fact_type, created_at |-> created_at]
        hits == {Hit(<<"Mom", "is", "visiting">>, 6, "episodic", -60),
                 Hit(<<"Mom", "is", "visiting">>, 5, "episodic", 0),
                 Hit(<<"Mom", "VISITING", "Philadelphia">>, 10, "core", 0)}
    IN {<< >>} \cup {<<h>> : h \in hits} \cup {p \in hits \X hits : p[1] # p[2]}

\* what the graph leg finds in a store that holds Mom VISITING Philadelphia
FnGraphResults ==
    {<< >>} \cup GraphSearchResults("memory",
                    PersistOne("memory", << >>, RelDict(Visiting), 0, 0),
                    <<"Mom">>, GraphSearchTopK, now)

\* _vector_search: the hits of vector_search and their RetrievedContexts
ApplyVectorSearch ==
    /\ \E table \in FnTables, top_k \in {1, VectorSearchTopK} :
        \E hits \in VectorSearch(table, top_k) :
            applied' = [op |-> "vector_search",
                        input |-> [table |-> table, top_k |-> top_k],
                        output |-> [hits |-> hits,
                                    results |-> [k \in DOMAIN hits |-> Retrieved(hits[k])]]]
    /\ UNCHANGED <<envVars, calls, history_len, retry, now, storeVars, chunks, frames,
                   observer_tasks, permits, mainVars, searchVars>>

\* lines 71-77 of assemble on the results of the two searches
ApplyMergeAndDecay ==
    /\ \E table \in FnTables, graph_res \in FnGraphResults :
        LET vector_results == [k \in DOMAIN table |-> Retrieved(table[k])]
            graph_results_ == [k \in DOMAIN graph_res |-> Retrieved(graph_res[k])]
        IN applied' = [op |-> "merge_and_decay",
                       input |-> [vector_results |-> vector_results,
                                  graph_results |-> graph_results_, at |-> now],
                       output |-> MergeAndDecay(vector_results, graph_results_, now)]
    /\ UNCHANGED <<envVars, calls, history_len, retry, now, storeVars, chunks, frames,
                   observer_tasks, permits, mainVars, searchVars>>

\* _rerank on the candidates of assemble, with a cosine similarity of -0.3,
\* 0 or 0.9 for the first of them and 0.5 for the others, and a last user
\* message or none
ApplyRerank ==
    /\ \E table \in FnTables, graph_res \in FnGraphResults, score \in {-3, 0, 9},
          last_user_message \in {<< >>, <<Message("user", <<"mom">>, 3)>>} :
        LET candidates ==
                MergeAndDecay([k \in DOMAIN table |-> Retrieved(table[k])],
                              [k \in DOMAIN graph_res |-> Retrieved(graph_res[k])], now)
            scores == [k \in DOMAIN candidates |-> IF k = 1 THEN score ELSE 5]
        IN applied' = [op |-> "rerank",
                       input |-> [candidates |-> candidates, scores |-> scores,
                                  last_user_message |-> last_user_message],
                       output |-> Rerank(candidates, scores, RerankTopK,
                                         last_user_message)]
    /\ UNCHANGED <<envVars, calls, history_len, retry, now, storeVars, chunks, frames,
                   observer_tasks, permits, mainVars, searchVars>>

\* the ages in days of the candidates whose decay is computed
FnAges == {0, 1, 14, 28, 60, 120, 180, 360}

\* _calculate_temporal_decay for two candidates of one fact type and one
\* utility, under the decay rates of the settings or with a tier switched off
ApplyCalculateTemporalDecay ==
    /\ \E decay_rates \in {DecayRates, [DecayRates EXCEPT !.medium = 0],
                            [DecayRates EXCEPT !.low = 0]},
          fact_type \in {"core", "episodic", "preference"},
          utility_score \in {4, 5, 6, 8, 9},
          older \in FnAges, younger \in FnAges :
        /\ older >= younger
        /\ applied' = [op |-> "calculate_temporal_decay",
                       input |-> [decay_rates |-> decay_rates, fact_type |-> fact_type,
                                  utility_score |-> utility_score,
                                  created_at |-> <<now - older, now - younger>>,
                                  at |-> now],
                       output |-> [k \in 1..2 |->
                                    CalculateTemporalDecay(decay_rates,
                                        IF k = 1 THEN now - older ELSE now - younger,
                                        fact_type, utility_score, now)]]
    /\ UNCHANGED <<envVars, calls, history_len, retry, now, storeVars, chunks, frames,
                   observer_tasks, permits, mainVars, searchVars>>

InitFn == InitWith({"visit"})

\* the temporal decay, call by call
NextDecay == ApplyCalculateTemporalDecay

SpecDecay == InitFn /\ [][NextDecay]_vars

\* the vector table, call by call
NextTable ==
    \/ ApplyPersistChunks
    \/ Tick

SpecTable == InitFn /\ [][NextTable]_vars

\* the functions of the context assembler, call by call
NextFn ==
    \/ ApplyFormatMemories
    \/ ApplyGetSlidingWindow
    \/ ApplyVectorSearch
    \/ ApplyMergeAndDecay
    \/ ApplyRerank

SpecFn == InitFn /\ [][NextFn]_vars

\* ------------------------------------- the observer's generator calls
\* an observer stage calls the generator
StartCall ==
    /\ retry.pc \in {"idle", "returned", "raised"}
    /\ retry.made < MaxGenCalls
    /\ \E caller \in GeneratorCallers :
        retry' = [NoCall EXCEPT !.pc = "calling", !.caller = caller,
                                !.made = retry.made + 1]
    /\ UNCHANGED <<envVars, calls, history_len, applied, now, storeVars, chunks, frames,
                   observer_tasks, permits, mainVars, searchVars>>

\* one await of self.llm.generate: inside the loop of retry_on_timeout when
\* the call is wrapped, bare otherwise
Attempt ==
    /\ retry.pc = "calling"
    /\ \E outcome \in GenerateOutcomes :
        LET r == [retry EXCEPT !.outcomes = Append(@, outcome)]
        IN retry' =
            IF outcome = "response" THEN [r EXCEPT !.pc = "returned"]
            ELSE IF Wrapped(retry.caller) /\ Retried(outcome)
                    /\ retry.attempt # MaxRetries - 1
                 THEN [r EXCEPT !.pc = "sleeping",
                                !.slept = Append(@, RetryDelay * (2 ^ retry.attempt))]
                 ELSE [r EXCEPT !.pc = "raised"]
    /\ UNCHANGED <<envVars, calls, history_len, applied, now, storeVars, chunks, frames,
                   observer_tasks, permits, mainVars, searchVars>>

\* asyncio.sleep(wait_time) is over: the next round of the loop
WakeUp ==
    /\ retry.pc = "sleeping"
    /\ retry' = [retry EXCEPT !.pc = "calling", !.attempt = @ + 1]
    /\ UNCHANGED <<envVars, calls, history_len, applied, now, storeVars, chunks, frames,
                   observer_tasks, permits, mainVars, searchVars>>

InitRetry == InitWith({"smalltalk"})

NextRetry ==
    \/ StartCall
    \/ Attempt
    \/ WakeUp

SpecRetry == InitRetry /\ [][NextRetry]_vars

\* ================================================================ claims
StoredRels == [i \in DOMAIN rels |-> Rel(backend, rels[i])]
Live(r) == r.superseded_by = NoStmt
SameKey(r, q) == r.subject = q.subject /\ r.predicate = q.predicate
IsTriple(r, f) == SameKey(r, f) /\ r.object = f.object
InFlight == {t \in Tasks : frames[t].pc \in Running}

\* C1: in every reachable state of the graph store, each (subject,
\* predicate) pair has at most one stored relationship with
\* superseded_by = null.
C1_AtMostOneLivePerKey ==
    \A i, j \in DOMAIN StoredRels :
        (/\ i # j
         /\ SameKey(StoredRels[i], StoredRels[j])
         /\ Live(StoredRels[i]))
        => ~Live(StoredRels[j])

\* C2: a turn graded DISCARD persists no chunk, entity or relationship,
\* marks no contradiction, makes no generator call after the grading call,
\* and returns at once with a null summary and empty lists.
C2_DiscardProducesNothing ==
    \A t \in Tasks :
        frames[t].grade = "DISCARD" =>
            /\ frames[t].pc = "done"
            /\ frames[t].calls_after = 0
            /\ frames[t].effects = 0
            /\ \A i \in DOMAIN rels : rels[i].by # t
            /\ \A n \in nodes : n.by # t
            /\ \A i \in DOMAIN chunks : chunks[i].turn_index # frames[t].turn_index
            /\ frames[t].summary = None
            /\ frames[t].entities = << >>
            /\ frames[t].relationships = << >>
            /\ frames[t].contradictions = << >>
            /\ frames[t].queries = << >>

C2_Witness ==
    \E t \in Tasks :
        /\ frames[t].grade = "DISCARD"
        /\ frames[t].pc = "done"
        /\ \E u \in Tasks : frames[u].pc = "done" /\ frames[u].effects > 0
        /\ rels # << >>
        /\ chunks # << >>

\* the candidates of the last graph search are live and were not expired
\* when it ran; strictly: valid_until later than the time of the search
NotExpiredAt(r, t, strictly) ==
    \/ r.valid_until = NoTime
    \/ IF strictly THEN r.valid_until > t ELSE r.valid_until >= t

\* C3 as stated: every relationship the graph leg turns into a candidate
\* has superseded_by = null and no valid_until or a valid_until later than
\* now.
C3_CandidatesLiveAndLaterThanNow ==
    \A k \in DOMAIN graph_results :
        /\ Live(graph_results[k].rel)
        /\ NotExpiredAt(graph_results[k].rel, searched_at, TRUE)

\* C3 amended: every relationship the graph leg turns into a candidate has
\* superseded_by = null and no valid_until or a valid_until not earlier
\* than now.
C3_CandidatesLiveAndNotExpired ==
    \A k \in DOMAIN graph_results :
        /\ Live(graph_results[k].rel)
        /\ NotExpiredAt(graph_results[k].rel, searched_at, FALSE)

\* a search returned a candidate while the store held a superseded and an
\* expired relationship that match the same names
C3_Witness ==
    /\ graph_results # << >>
    /\ searched_at = now
    /\ \E i \in DOMAIN StoredRels :
        /\ ~Live(StoredRels[i])
        /\ StoredRels[i].subject = graph_results[1].rel.subject
    /\ \E i \in DOMAIN StoredRels :
        /\ ~NotExpiredAt(StoredRels[i], searched_at, FALSE)
        /\ StoredRels[i].subject = graph_results[1].rel.subject

\* C4: every stored relationship with superseded_by # null has
\* status = completed, on either back-end.
C4_SupersededIsCompleted ==
    \A i \in DOMAIN StoredRels :
        ~Live(StoredRels[i]) => StoredRels[i].status = "completed"

\* Turn 1 stored fact old and nothing else; turn 2 extracted fact new from
\* the user side and got one high-confidence contradiction against the
\* stored record; both turns are over and no other turn wrote anything.
Scenario(tp, old, new) ==
    /\ topic = tp
    /\ Len(frames) >= 2
    /\ rels # << >>
    /\ IsTriple(rels[1], old)
    /\ frames[1].pc = "done"
    /\ frames[1].extracted = [user |-> <<RelDict(old)>>, assistant |-> << >>]
    /\ frames[1].contradictions = << >>
    /\ frames[2].pc = "done"
    /\ frames[2].extracted = [user |-> <<RelDict(new)>>, assistant |-> << >>]
    /\ frames[2].contradictions =
          <<[existing_fact_id |-> StoredRels[1].id,
             existing_statement |-> Statement(old),
             new_statement |-> Statement(new)]>>
    /\ \A t \in Tasks \ {1, 2} : frames[t].effects = 0

\* C5: employment change: after the turn the Acme record has
\* status = completed and superseded_by = "User WORKS_AT NewCorp", and
\* User WORKS_AT NewCorp is the only live WORKS_AT relationship of User.
C5_EmploymentChange ==
    Scenario("employment", Acme, NewCorp) =>
        /\ StoredRels[1].status = "completed"
        /\ StoredRels[1].superseded_by = Statement(NewCorp)
        /\ \E i \in DOMAIN StoredRels :
            /\ IsTriple(StoredRels[i], NewCorp)
            /\ Live(StoredRels[i])
            /\ \A j \in DOMAIN StoredRels :
                (SameKey(StoredRels[j], NewCorp) /\ Live(StoredRels[j])) => j = i

\* C6: visit completion: after the turn the VISITING record is marked
\* completed and the graph leg for the query "Mom" returns only the
\* RETURNED_HOME relationship.
C6_VisitCompletion ==
    Scenario("visit", Visiting, ReturnedHome) =>
        /\ StoredRels[1].status = "completed"
        /\ \A res \in GraphSearchResults(backend, rels, <<"Mom">>, GraphSearchTopK, now) :
            /\ Len(res) = 1
            /\ IsTriple(res[1].rel, ReturnedHome)

\* C7: when both sides of one turn extract a relationship with the same
\* (subject, predicate), the assistant-inferred one is neither among the
\* turn's merged relationships nor among the records the turn stores.
C7_UserStatedDominates ==
    \A t \in Tasks :
        \A i \in DOMAIN frames[t].extracted.user,
           j \in DOMAIN frames[t].extracted.assistant :
            LET u == frames[t].extracted.user[i]
                a == frames[t].extracted.assistant[j]
            IN SameKey(u, a) =>
                /\ \A k \in DOMAIN frames[t].relationships :
                      SameKey(frames[t].relationships[k], a)
                        => frames[t].relationships[k].source = "user_stated"
                /\ \A k \in DOMAIN rels :
                      (rels[k].by = t /\ SameKey(rels[k], a))
                        => rels[k].source = "user_stated"

C7_Witness ==
    \E t \in Tasks :
        /\ frames[t].pc = "done"
        /\ frames[t].extracted = [user |-> <<RelDict(Acme)>>,
                                  assistant |-> <<RelDict(NewCorp)>>]
        /\ \E k \in DOMAIN rels : rels[k].by = t /\ IsTriple(rels[k], Acme)

\* C8: process_turn never raises to its caller.
C8_ProcessTurnNeverRaises ==
    \A t \in Tasks : frames[t].pc # "failed"

\* C9: at most 2 invocations of process_turn are in flight; the semaphore
\* counts them and further tasks wait.
C9_AtMostTwoInFlight ==
    /\ Cardinality(InFlight) <= ObserverPermits
    /\ permits = ObserverPermits - Cardinality(InFlight)

C9_Witness ==
    /\ Cardinality(InFlight) = ObserverPermits
    /\ \E t \in Tasks : frames[t].pc = "queued"

\* C10: wait_for_observers returns only after every registered observer
\* task has finished; a task's exception is logged, not raised to the
\* caller, and the other tasks are still awaited.
C10_WaitForObservers ==
    /\ wait_result \in {"none", "returned"}
    /\ mainpc = "waiting" => awaited = Tasks
    /\ wait_result = "returned" =>
        /\ \A t \in Tasks : frames[t].pc \in Finished
        /\ logged = {t \in Tasks : frames[t].pc = "failed"}
        /\ observer_tasks = << >>

C10_Witness ==
    /\ wait_result = "returned"
    /\ \E t \in Tasks : frames[t].pc = "failed"
    /\ \E t \in Tasks : frames[t].pc = "done" /\ frames[t].grade # "DISCARD"
    /\ Len(frames) >= 3

\* C11: on a process interrupt, at the input prompt or during a turn, every
\* observer task still in flight is awaited to completion before the
\* process exits: once the process has exited, each spawned task has
\* returned or raised, none was cut short.
C11_InterruptAwaitsObservers ==
    mainpc = "exited" => \A t \in Tasks : frames[t].pc \in Finished

\* C12: when the vector persistence of a turn fails on the embedding's
\* length, the entities and relationships of that turn are persisted to
\* the graph store (no graph call having failed) by the time the observer
\* task is finished.
C12_GraphPersistedDespiteMismatch ==
    \A t \in Tasks :
        (/\ frames[t].pc = "failed"
         /\ frames[t].vpc = "mismatch"
         /\ frames[t].gpc # "raised")
        => frames[t].gpc = "done"

\* C13: when the embedder, the vector search, the graph search or the
\* reranker fails during ContextAssembler.assemble, assemble does not raise:
\* it still returns a context that holds the sliding-window section.
C13_AssembleNeverRaises ==
    /\ assembled.status # "raised"
    /\ assembled.status = "returned"
        => \E history \in AsmHistories : assembled.sliding = GetSlidingWindow(history)

\* the last call on the store, the relationships it found there, and the
\* relationships whose id matches a mark_contradiction argument (a mark
\* changes neither the ids nor what query returns)
LastCall == calls[Len(calls)]
StoreBefore ==
    LET st == Replay(backend, SubSeq(calls, 1, Len(calls) - 1)).rels
    IN [i \in DOMAIN st |-> Rel(backend, st[i])]
Marked(store, arg) ==
    {i \in DOMAIN store : Str(store[i].id) = Str(MarkId(backend, rels, arg))}

\* C14: mark_contradiction(existing_id, s) on a store that holds one
\* relationship with that id (an integer matches its decimal string) sets
\* that relationship's status to completed, superseded_by to s,
\* metadata.still_valid to false and metadata.superseded_at to the time of
\* the call.
C14_MarkSetsTheFourFields ==
    (calls # << >> /\ LastCall.op = "mark_contradiction")
    => \A i \in Marked(StoreBefore, LastCall.arg) :
            Cardinality(Marked(StoreBefore, LastCall.arg)) = 1
            => /\ StoredRels[i].status = "completed"
               /\ StoredRels[i].superseded_by = LastCall.arg.stmt
               /\ StoredRels[i].still_valid = "false"
               /\ StoredRels[i].superseded_at = LastCall.at

\* C15: mark_contradiction(id, s) is idempotent: after a second call with
\* the same id and the same statement every relationship has the status and
\* the superseded_by the first call left.
C15_MarkIsIdempotent ==
    (/\ Len(calls) >= 2
     /\ LastCall.op = "mark_contradiction"
     /\ calls[Len(calls) - 1].op = "mark_contradiction"
     /\ calls[Len(calls) - 1].arg = LastCall.arg)
    => /\ Len(StoredRels) = Len(StoreBefore)
       /\ \A i \in DOMAIN StoreBefore :
            /\ StoredRels[i].status = StoreBefore[i].status
            /\ StoredRels[i].superseded_by = StoreBefore[i].superseded_by

C15_Witness ==
    /\ Len(calls) >= 2
    /\ LastCall.op = "mark_contradiction"
    /\ calls[Len(calls) - 1] = [LastCall EXCEPT !.at = 0]
    /\ LastCall.at = 1
    /\ \E i \in Marked(StoreBefore, LastCall.arg) :
            /\ StoredRels[i].superseded_by = LastCall.arg.stmt
            /\ StoredRels[i].superseded_at = 1

\* C16: mark_contradiction adds and removes no relationship, changes none
\* but the one whose id matches, leaves that one's subject, predicate,
\* object, source, confidence, created_at and valid_until alone, and leaves
\* the store as it is when no id matches; persist_relationships appends one
\* record and modifies no existing one.
C16_MarkAndPersistFrame ==
    calls # << >>
    => /\ LastCall.op = "mark_contradiction"
            => /\ Len(StoredRels) = Len(StoreBefore)
               /\ \A i \in DOMAIN StoreBefore :
                    IF i \in Marked(StoreBefore, LastCall.arg)
                    THEN /\ StoredRels[i].subject = StoreBefore[i].subject
                         /\ StoredRels[i].predicate = StoreBefore[i].predicate
                         /\ StoredRels[i].object = StoreBefore[i].object
                         /\ StoredRels[i].source = StoreBefore[i].source
                         /\ StoredRels[i].confidence = StoreBefore[i].confidence
                         /\ StoredRels[i].created_at = StoreBefore[i].created_at
                         /\ StoredRels[i].valid_until = StoreBefore[i].valid_until
                    ELSE StoredRels[i] = StoreBefore[i]
       /\ LastCall.op = "persist_relationships"
            => /\ Len(StoredRels) = Len(StoreBefore) + 1
               /\ \A i \in DOMAIN StoreBefore : StoredRels[i] = StoreBefore[i]

\* what C17 compares of a relationship: ids and timestamps aside
View(rs) ==
    {[subject |-> rs[i].subject, predicate |-> rs[i].predicate, object |-> rs[i].object,
      status |-> rs[i].status, superseded_by |-> rs[i].superseded_by,
      source |-> rs[i].source, confidence |-> rs[i].confidence] : i \in DOMAIN rs}

\* C17: after the same sequence of persist_entities, persist_relationships
\* and mark_contradiction calls the two back-ends return the same
\* relationships (as sets, ids and timestamps aside) from query,
\* query_by_object and search_relationships, and hold the same attributes
\* for every entity.
C17_BackendsAgree ==
    LET other == IF backend = "memory" THEN "falkor" ELSE "memory"
        theirs == Replay(other, calls)
        Attributes(ns) == {<<n.name, n.attributes>> : n \in {m \in ns : m.label = "Entity"}}
    IN /\ View(Query(backend, rels, Mom)) = View(Query(other, theirs.rels, Mom))
       /\ \A obj \in {Visiting.object, ReturnedHome.object} :
            View(QueryByObject(backend, rels, obj))
                = View(QueryByObject(other, theirs.rels, obj))
       /\ \A limit \in {1, 10} :
            {View(res) : res \in SearchResults(backend, rels, {Mom}, limit)}
                = {View(res) : res \in SearchResults(other, theirs.rels, {Mom}, limit)}
       /\ \A name \in {e.name : e \in CallEntities} :
            {a \in Attributes(nodes) : a[1] = name}
                = {a \in Attributes(theirs.nodes) : a[1] = name}

\* C18: search_relationships(names, limit) returns the matching
\* relationships newest first: of two returned relationships the one created
\* later comes earlier, and when more than limit match, none left out is
\* newer than one returned.
C18_SearchNewestFirst ==
    (calls # << >> /\ LastCall.op = "search_relationships")
    => LET res == LastCall.result
           matching == {i \in DOMAIN StoredRels :
                            Matches(StoredRels[i], LastCall.arg.names)}
           left_out == {i \in matching :
                            \A k \in DOMAIN res :
                                Statement(res[k]) # Statement(StoredRels[i])}
       IN /\ \A j, k \in DOMAIN res :
                j < k => res[j].created_at >= res[k].created_at
          /\ Cardinality(matching) > LastCall.arg.limit
                => \A i \in left_out, k \in DOMAIN res :
                        StoredRels[i].created_at <= res[k].created_at

C21_TimeoutsAreRetried ==
    LET n == Len(retry.outcomes)
    IN /\ n <= MaxRetries
       /\ \A k \in DOMAIN retry.slept : retry.slept[k] = 2 ^ k
       /\ \A k \in 1..(n - 1) : IsTimeout(retry.outcomes[k])
       /\ retry.pc = "returned" => retry.outcomes[n] = "response"
       /\ (retry.pc = "raised" /\ IsTimeout(retry.outcomes[n])) => n = MaxRetries
       /\ retry.pc = "raised" => retry.outcomes[n] # "response"

\* C22: while the generator streams a turn, the observer task of every turn
\* completed before it (the i-th has turn index 2(i-1)) has been created and
\* is in the task list, whether or not it has finished.
C22_SpawnedBeforeNextTurn ==
    mainpc = "turn" =>
        \A i \in 1..(history_len \div 2) :
            \E k \in DOMAIN observer_tasks :
                frames[observer_tasks[k]].turn_index = 2 * (i - 1)

\* the third turn is streamed while the first turn's observer is at work
C22_Witness ==
    /\ mainpc = "turn"
    /\ history_len = 4
    /\ Len(observer_tasks) = 2
    /\ frames[1].pc \in Running

\* C23: no two chunks of the vector table have the same id, the chunks of
\* observer tasks that run side by side included.
C23_ChunkIdsUnique ==
    \A i, j \in DOMAIN chunks : i # j => chunks[i].id # chunks[j].id

\* C24: persist_chunks with a chunk whose embedding has not the length
\* EMBED_DIM raises and adds nothing to the table, neither that chunk nor
\* the valid chunks of the same call.
C24_MismatchInsertsNothing ==
    (/\ applied.op = "persist_chunks"
     /\ \E k \in DOMAIN applied.input.chunks :
            applied.input.chunks[k].embedding # EmbedDim)
    => /\ applied.output.raised
       /\ chunks = applied.input.table

\* a valid chunk followed by one of another length, on a table with rows
C24_Witness ==
    /\ applied.op = "persist_chunks"
    /\ Len(applied.input.chunks) = 2
    /\ applied.input.chunks[1].embedding = EmbedDim
    /\ applied.input.chunks[2].embedding # EmbedDim
    /\ applied.input.table # << >>
    /\ applied.output.raised

\* C25: persist_entities called a second time for a name, with other
\* attributes, leaves one entity of that name: its attributes are those of
\* both calls, the second call's value where both give a key, its
\* last_mentioned is the time of the second call and its first_mentioned
\* still the time of the first.
C25_PersistEntitiesMerges ==
    LET n == Len(calls)
    IN (/\ n >= 2
        /\ calls[n].op = "persist_entities"
        /\ calls[n - 1].op = "persist_entities"
        /\ calls[n].arg.name = calls[n - 1].arg.name
        /\ calls[n].arg.attributes # calls[n - 1].arg.attributes
        /\ \A k \in 1..(n - 2) : calls[k].op # "persist_entities")
       => LET es == {m \in nodes : m.label = "Entity" /\ m.name = calls[n].arg.name}
          IN /\ Cardinality(es) = 1
             /\ \A m \in es :
                    /\ m.attributes = MergeAttributes(calls[n - 1].arg.attributes,
                                                      calls[n].arg.attributes)
                    /\ m.last_mentioned = calls[n].at
                    /\ m.first_mentioned = calls[n - 1].at

\* C26: the memory bullets of assemble are whole entries, taken from the
\* front of the reranked memories, and the token counts of their contents
\* sum to at most R = max(0, max_context_tokens - tokens(sliding window));
\* with R at most 50 and six candidates of 20 tokens at most 2 appear.
C26_BulletsWithinBudget ==
    applied.op = "format_memories" =>
        LET in == applied.input
            entries == applied.output
            R == RemainingTokens(in.max_context_tokens, GetSlidingWindow(in.history))
            RECURSIVE Tokens(_)
            Tokens(es) == IF es = << >> THEN 0
                          ELSE CountTokens(Chars(Head(es))) + Tokens(Tail(es))
        IN /\ Len(entries) <= Len(in.memories)
           /\ \A k \in DOMAIN entries : entries[k] = in.memories[k].content
           /\ Tokens(entries) <= R
           /\ (/\ R <= 50
               /\ Len(in.memories) = 6
               /\ \A k \in 1..6 : CountTokens(Chars(in.memories[k].content)) = 20)
              => Len(entries) <= 2

\* a budget of 200 tokens of which the sliding window takes 151: two of the
\* six candidates of 20 tokens appear
C26_Witness ==
    /\ applied.op = "format_memories"
    /\ applied.input.max_context_tokens = 200
    /\ RemainingTokens(200, GetSlidingWindow(applied.input.history)) = 49
    /\ Len(applied.input.memories) = 6
    /\ Len(applied.output) = 2

\* C27: the text _get_sliding_window returns, the "ROLE: content" lines
\* joined by newlines, counts at most sliding_window_tokens tokens.
C27_SlidingWindowWithinBudget ==
    applied.op = "get_sliding_window" =>
        CountTokens(SlidingChars(applied.output)) <= SlidingWindowTokens

\* C28: of the candidates that share (content, source) the one kept after
\* merge and dedup has the highest final score, final being relevance times
\* temporal decay; candidates of equal content and different source are
\* both kept.
C28_MergeKeepsHigherFinal ==
    applied.op = "merge_and_decay" =>
        LET all == applied.input.vector_results \o applied.input.graph_results
            kept == applied.output
            Final(c) == c.relevance_score
                        * CalculateTemporalDecay(DecayRates, c.created_at, c.fact_type,
                                                 c.utility_score, applied.input.at)
        IN /\ \A i, j \in DOMAIN kept :
                (kept[i].content = kept[j].content /\ kept[i].source = kept[j].source)
                => i = j
           /\ \A i \in DOMAIN all :
                \E k \in DOMAIN kept :
                    /\ kept[k].content = all[i].content
                    /\ kept[k].source = all[i].source
                    /\ kept[k].final_score >= Final(all[i])

\* C29: the candidate _vector_search makes of a hit has the hit's combined
\* score (0.7 rank score + 0.3 utility) as relevance_score and the stored
\* utility as utility_score.
C29_RelevanceIsCombinedScore ==
    applied.op = "vector_search" =>
        \A k \in DOMAIN applied.output.hits :
            LET hit == applied.output.hits[k]
                c == applied.output.results[k]
            IN /\ c.relevance_score * hit._combined_score.den
                    = 10000 * hit._combined_score.num
               /\ c.utility_score = hit.utility_score

\* the score the reranker returned for a candidate of the last _rerank
RerankScoreOf(c) ==
    LET in == applied.input
        i == CHOOSE i \in DOMAIN in.candidates :
                /\ in.candidates[i].content = c.content
                /\ in.candidates[i].source = c.source
    IN in.scores[i]

Abs(x) == IF x < 0 THEN -x ELSE x

\* C30 as stated: every candidate c after rerank has
\* c.final <= c.relevance * c.temporal * rerank(c) * 1.4, rerank(c) being the
\* score the reranker returned for c.
C30_FinalBoundedByScore ==
    applied.op = "rerank" =>
        \A k \in DOMAIN applied.output :
            LET c == applied.output[k]
            IN c.final_score
                <= c.relevance_score * c.temporal_score * RerankScoreOf(c) * 14

\* C30: every candidate c after rerank has
\* |c.final| <= c.relevance * c.temporal * |s| * 1.4, where s is the score the
\* reranker returned for c, or 1.0 when that score is 0; for a positive
\* score this is the bound c.final <= c.relevance * c.temporal * s * 1.4.
C30_FinalBoundedByUsedScore ==
    applied.op = "rerank" =>
        \A k \in DOMAIN applied.output :
            LET c == applied.output[k]
                s == IF RerankScoreOf(c) = 0 THEN 10 ELSE RerankScoreOf(c)
            IN Abs(c.final_score)
                <= c.relevance_score * c.temporal_score * Abs(s) * 14

\* a candidate the reranker scored 0 that holds the last user message: its
\* final score is at the bound
C30_Witness ==
    /\ applied.op = "rerank"
    /\ applied.input.last_user_message # << >>
    /\ \E k \in DOMAIN applied.output :
            LET c == applied.output[k]
            IN /\ RerankScoreOf(c) = 0
               /\ c.final_score = c.relevance_score * c.temporal_score * 10 * 14
               /\ c.final_score > 0


\* C31: a candidate of fact type core has the temporal decay factor 1.0
\* whatever its age and utility; for another fact type the half-life is that
\* of the utility's tier (0.9 and more high, 0.5 and more medium, else low):
\* the factor is 1.0 at age 0, 0.5 at the half-life and 0.25 at twice the
\* half-life, a half-life of 0 gives 1.0, and of two candidates of one tier
\* the older never has the larger factor.
C31_TemporalDecay ==
    applied.op = "calculate_temporal_decay" =>
        LET in == applied.input
            factor == applied.output
            H == IF in.utility_score >= 9 THEN in.decay_rates.high
                 ELSE IF in.utility_score >= 5 THEN in.decay_rates.medium
                 ELSE in.decay_rates.low
        IN /\ in.fact_type = "core" => factor = <<1000, 1000>>
           /\ (in.fact_type # "core" /\ H = 0) => factor = <<1000, 1000>>
           /\ (in.fact_type # "core" /\ H # 0) =>
                /\ \A k \in 1..2 :
                    LET age == in.at - in.created_at[k]
                    IN /\ age = 0 => factor[k] = 1000
                       /\ age = H => factor[k] = 500
                       /\ age = 2 * H => factor[k] = 250
                       /\ factor[k] <= 1000
                /\ in.created_at[1] <= in.created_at[2]
                /\ factor[1] <= factor[2]

\* a candidate of medium utility that is 60 days old gets 0.5, one that is a
\* day old more than 0.9
C31_Witness ==
    /\ applied.op = "calculate_temporal_decay"
    /\ applied.input.fact_type = "episodic"
    /\ applied.input.utility_score = 6
    /\ applied.input.decay_rates = DecayRates
    /\ applied.input.at - applied.input.created_at[1] = 60
    /\ applied.input.at - applied.input.created_at[2] = 1
    /\ applied.output[1] = 500
    /\ applied.output[2] > 900

\* the persistence of task t has started: one of its two sides was entered
PersistStarted(f) == f.vpc # "none" \/ f.gpc # "none"

\* C32: within one process_turn the stages come in order.  While the grading
\* call is out no generator call of the fan-out has been made and nothing is
\* written; contradiction detection (related facts, verdict, marks) runs only
\* once the four calls of the fan-out are back, and before any persistence;
\* and the persistence of the chunk, the entities and the relationships has
\* started only when the loop of _check_contradictions is past the last
\* merged relationship with no mark outstanding.
C32_StagesInOrder ==
    \A t \in Tasks :
        LET f == frames[t]
            wrote == \/ \E i \in DOMAIN rels : rels[i].by = t
                     \/ \E n \in nodes : n.by = t
                     \/ \E i \in DOMAIN chunks : chunks[i].turn_index = f.turn_index
        IN /\ f.pc \in {"queued", "grading"} =>
                /\ f.calls_after = 0
                /\ f.effects = 0
                /\ ~PersistStarted(f)
           /\ f.pc = "fanout" =>
                /\ f.grade \notin {None, "DISCARD"}
                /\ f.calls_after = 0
                /\ f.contradictions = << >>
                /\ f.effects = 0
                /\ ~PersistStarted(f)
           /\ f.pc \in {"check", "verdict", "marking"} =>
                /\ f.calls_after >= 4
                /\ f.summary # None
                /\ f.ci \in DOMAIN f.relationships
                /\ ~PersistStarted(f)
                /\ ~wrote
           /\ wrote => PersistStarted(f)
           /\ (PersistStarted(f) /\ f.pc \in {"persist", "done"}) =>
                /\ f.calls_after >= 4
                /\ f.ci = Len(f.relationships) + 1
                /\ f.todo = << >>
                /\ f.existing = << >>
           /\ PersistStarted(f) => f.pc \in {"persist", "done", "failed"}

\* a turn with two merged relationships, the first of which contradicted a
\* stored fact, has persisted its chunk and its relationships
C32_Witness ==
    \E t \in Tasks :
        /\ frames[t].pc = "done"
        /\ Len(frames[t].relationships) = 2
        /\ frames[t].contradictions # << >>
        /\ frames[t].contradictions[1].new_statement
                = Statement(frames[t].relationships[1])
        /\ \E i \in DOMAIN rels : rels[i].by = t
        /\ \E i \in DOMAIN chunks : chunks[i].turn_index = frames[t].turn_index

\* C33: the relationships a finished turn with contradictions has added to
\* the graph store are its merged relationships and no other: no record
\* rebuilt from a contradiction's existing_statement is persisted, the
\* superseded fact is the existing record, edited in place.
C33_OnlyMergedRelationshipsPersisted ==
    \A t \in Tasks :
        (frames[t].pc = "done" /\ frames[t].contradictions # << >>) =>
            \A i \in DOMAIN rels :
                rels[i].by = t =>
                    /\ ~rels[i].meta_superseded
                    /\ \E k \in DOMAIN frames[t].relationships :
                            IsTriple(rels[i], frames[t].relationships[k])

\* C34: every relationship process_turn has persisted carries
\* (user_stated, 1.0) when it came from a user-side extraction and
\* (assistant_inferred, 0.3) when it came from an assistant-side one, and no
\* other tag, so every stored confidence lies in [0, 1]; stated for the
\* sessions in which no turn has raised.
C34_PersistedCarryTheirTag ==
    (\A t \in Tasks : frames[t].pc # "failed") =>
        \A i \in DOMAIN StoredRels :
            LET r == StoredRels[i]
                From(side) == \E t \in Tasks :
                                \E k \in DOMAIN frames[t].extracted[side] :
                                    IsTriple(r, frames[t].extracted[side][k])
            IN /\ r.confidence \in 0..10
               /\ <<r.source, r.confidence>> \in {<<"user_stated", ConfUser>>,
                                                  <<"assistant_inferred", ConfAssistant>>}
               /\ r.source = "user_stated" => From("user")
               /\ r.source = "assistant_inferred" => From("assistant")

\* every observer task is over, and so is every persistence side that a
\* task which raised has left running
AllOver ==
    \A t \in Tasks : /\ frames[t].pc \in Finished
                     /\ frames[t].gpc # "pending"
                     /\ frames[t].vpc # "embedding"

\* C35: once the observer tasks have finished, normally or with an error,
\* every relationship marked as superseded by a statement s has its
\* replacement in the graph store: a relationship whose "subject predicate
\* object" is s.
C35_SupersededHasReplacement ==
    AllOver =>
        \A i \in DOMAIN StoredRels :
            ~Live(StoredRels[i]) =>
                \E j \in DOMAIN StoredRels :
                    Statement(StoredRels[j]) = StoredRels[i].superseded_by

\* process_turn from _check_contradictions on, run without interruption on
\* the store st, the contradiction prompt's answers being unparseable so that
\* the fallback rule decides: the marks, then the writes of
\* _persist_to_graph_store
SerialTurn(be, st, entities, relationships, t, who) ==
    LET RECURSIVE CheckFrom(_, _, _)
        CheckFrom(i, store, contradictions) ==
            IF i > Len(relationships)
            THEN [rels |-> store, contradictions |-> contradictions]
            ELSE LET new_rel == relationships[i]
                     found == SimpleContradictionCheck(new_rel,
                                                       Related(be, store, new_rel))
                     high == SelectSeq(found, ActedUpon)
                     marks == [k \in DOMAIN high |->
                                 [id |-> ObserverMarkId(high[k].existing_id),
                                  stmt |-> Statement(new_rel)]]
                     recs == [k \in DOMAIN high |->
                                 [existing_fact_id |-> high[k].existing_id,
                                  existing_statement |-> high[k].existing_statement,
                                  new_statement |-> Statement(new_rel)]]
                 IN CheckFrom(i + 1, MarkAll(be, store, marks, t), contradictions \o recs)
        checked == CheckFrom(1, st.rels, << >>)
    IN ApplyGraphOps(be, [rels |-> checked.rels, nodes |-> st.nodes],
                     [entities |-> entities, relationships |-> relationships,
                      contradictions |-> checked.contradictions], 1, t, who)

\* the relationships with superseded_by = null, ids and timestamps aside
LiveView(rs) ==
    {[subject |-> rs[i].subject, predicate |-> rs[i].predicate, object |-> rs[i].object,
      status |-> rs[i].status, source |-> rs[i].source, confidence |-> rs[i].confidence,
      metadata_superseded |-> rs[i].meta_superseded] :
        i \in {j \in DOMAIN rs : Live(rs[j])}}

\* the observer tasks of two consecutive turns have returned; each had one
\* merged relationship, the two with one subject and predicate and different
\* objects; whenever a task asked the contradiction prompt the fallback rule
\* decided
ConflictingTurnsDone ==
    /\ Len(frames) = 2
    /\ \A t \in 1..2 : /\ frames[t].pc = "done"
                       /\ Len(frames[t].relationships) = 1
                       /\ frames[t].calls_after > 4 => frames[t].warned
    /\ SameKey(frames[1].relationships[1], frames[2].relationships[1])
    /\ frames[1].relationships[1].object # frames[2].relationships[1].object

\* C36: when the observer tasks of two consecutive turns extract conflicting
\* relationships, the relationships with superseded_by = null after both have
\* finished are those that running turn i completely before turn i+1
\* leaves, however the semaphore let the two tasks interleave.
C36_InterleavingsAsSerial ==
    ConflictingTurnsDone =>
        LET empty == [rels |-> << >>, nodes |-> {}]
            first == SerialTurn(backend, empty, frames[1].entities,
                                frames[1].relationships, now, 1)
            second == SerialTurn(backend, first, frames[2].entities,
                                 frames[2].relationships, now, 2)
        IN LiveView(StoredRels)
            = LiveView([i \in DOMAIN second.rels |-> Rel(backend, second.rels[i])])

\* C37 (SpecStore): a stored relationship that is not superseded and not
\* expired, and that has a name of the query as its subject or object, is
\* among the results of the graph leg whenever at most top_k such live
\* relationships and at most 2 * top_k matching relationships are stored,
\* whatever the other stored records are.
C37_LiveMatchIsReturned ==
    \A q \in ApiQueries, top_k \in {1, GraphSearchTopK} :
        LET names == ExtractEntitiesFromQuery(q)
            matching == {i \in DOMAIN rels : Matches(StoredRels[i], names)}
            live == {i \in matching : GraphLegKeeps(StoredRels[i], now)}
        IN (Cardinality(live) <= top_k /\ Cardinality(matching) <= 2 * top_k)
           => \A res \in GraphSearchResults(backend, rels, q, top_k, now) :
                \A i \in live : \E k \in DOMAIN res :
                    IsTriple(res[k].rel, StoredRels[i])

\* C38: a relationship tagged user_stated is never marked superseded because
\* of a new relationship tagged assistant_inferred.  In every step in which
\* a task's contradiction check sets the superseded_by of a stored
\* user_stated relationship to the statement of the relationship it is
\* checking, that relationship is not an assistant_inferred one.
C38_UserStatedNotSupersededByInferred ==
    [][\A t \in Tasks, i \in DOMAIN rels :
        LET f == frames[t]
        IN (/\ f.pc \in {"verdict", "marking"}
            /\ frames'[t] # f
            /\ StoredRels[i].source = "user_stated"
            /\ rels'[i].superseded_by # rels[i].superseded_by
            /\ rels'[i].superseded_by = Statement(f.relationships[f.ci]))
           => f.relationships[f.ci].source # "assistant_inferred"
    ]_vars

\* C39 (SpecCalls): once a stored relationship has a superseded_by, no later
\* call of the store makes its superseded_by null again or removes the
\* record: in every step, a relationship that is superseded before the step
\* is still stored, with the same id, and still superseded after it.
C39_SupersededStaysSuperseded ==
    [][\A i \in DOMAIN rels :
        ~Live(StoredRels[i])
        => /\ i \in DOMAIN rels'
           /\ Rel(backend, rels'[i]).id = StoredRels[i].id
           /\ ~Live(Rel(backend, rels'[i]))
    ]_vars

\* ------------------------------------------------- fair scheduling
\* The event loop runs every callback that is ready, and every generator,
\* embedder and store call returns or raises: each step of a task that
\* stays possible is taken, and so is the return of wait_for_observers.
ObserverIds == 1..MaxObservers

FairSteps ==
    /\ \A t \in ObserverIds : WF_vars(t \in Tasks /\ Acquire(t))
    /\ \A t \in ObserverIds : WF_vars(t \in Tasks /\ Grade(t))
    /\ \A t \in ObserverIds : WF_vars(t \in Tasks /\ FanOut(t))
    /\ \A t \in ObserverIds : WF_vars(t \in Tasks /\ VectorPersist(t))
    /\ \A t \in ObserverIds : WF_vars(t \in Tasks /\ Return(t))
    /\ WF_vars(EndWait)

SpecOrchFair == InitOrch /\ [][NextOrch]_vars /\ FairSteps

\* C40 (SpecOrchFair): under fair scheduling every spawned observer task
\* eventually holds a permit and eventually finishes; the permits out are
\* at every moment those of the tasks inside process_turn, so a task that
\* raised has given its permit back; and wait_for_observers, once called,
\* eventually returns.
C40_TasksFinishAndWaitReturns ==
    /\ \A t \in ObserverIds :
          (t \in Tasks /\ frames[t].pc = "queued")
              ~> (t \in Tasks /\ frames[t].pc # "queued")
    /\ \A t \in ObserverIds :
          (t \in Tasks) ~> (t \in Tasks /\ frames[t].pc \in Finished)
    /\ [](permits = ObserverPermits
                      - Cardinality({t \in Tasks : frames[t].pc \in Running}))
    /\ (mainpc = "waiting") ~> (wait_result = "returned")

C40_Witness ==
    /\ wait_result = "returned"
    /\ Len(frames) = MaxObservers
    /\ \E t \in Tasks : frames[t].pc = "failed"
    /\ \E t \in Tasks : frames[t].pc = "done"
    /\ \A t \in Tasks : frames[t].pc \in Finished
    /\ logged # {}
    /\ permits = ObserverPermits

============================================================================
